---- MODULE Spec2Model ----
(***************************************************************************)
(* Model of the agent's message-processing loop (agents/agent_service.py): *)
(* startup (login, first config sync), the polling loop of                 *)
(* AgentService.run, the per-message pipeline of process_message and the   *)
(* helpers it calls.  Text is modelled as a sequence of one-character      *)
(* strings, a JSON object as a record, a JSON list as a sequence.          *)
(***************************************************************************)
EXTENDS Integers, Sequences, FiniteSets, TLC

\* ------------------------------------------------------------------------
\* Bounds of the model
\* ------------------------------------------------------------------------

\* Longest message list one fetch returns.
MaxFetch == 2

\* The longest message list given to build_context on its own.
MaxContext == 11

\* The clock of the timed specification stops at this many seconds.
MaxTime == 12

\* Raw completions are made of at most this many pieces.
MaxPieces == 3

\* Value of the watermark after construction (int(time.time() * 1000)).
InitWatermark == 50

\* ------------------------------------------------------------------------
\* Python values
\* ------------------------------------------------------------------------

\* Python None where a dict is expected.
None == [py |-> "None"]

\* JSON null where a list of identifiers is expected.
NullList == << "null" >>

\* dict.get(key, default)
Get(d, key, default) == IF key \in DOMAIN d THEN d[key] ELSE default

\* Truthiness of a text or list.
Truthy(s) == Len(s) > 0

Max2(a, b) == IF a >= b THEN a ELSE b

\* m.get("timestamp", 0)
Timestamp(m) == Get(m, "timestamp", 0)

\* max(m.get("timestamp", 0) for m in messages), for a non-empty list
RECURSIVE MaxTimestamp(_)
MaxTimestamp(ms) ==
  IF Len(ms) = 1 THEN Timestamp(ms[1])
  ELSE Max2(Timestamp(ms[1]), MaxTimestamp(Tail(ms)))

\* ------------------------------------------------------------------------
\* Text helpers (str methods and the re module)
\* ------------------------------------------------------------------------

\* Least i >= from with text[i .. i+Len(pat)-1] = pat, 0 when there is none.
IndexOf(text, pat, from) ==
  LET hits == { i \in from .. (Len(text) - Len(pat) + 1) :
                  SubSeq(text, i, i + Len(pat) - 1) = pat }
  IN IF hits = {} THEN 0 ELSE CHOOSE i \in hits : \A j \in hits : i <= j

\* pat in text
Contains(text, pat) == IndexOf(text, pat, 1) > 0

Whitespace == { " ", "\n", "\t", "\r" }

\* str.strip()
RECURSIVE LStrip(_)
LStrip(text) ==
  IF Len(text) > 0 /\ text[1] \in Whitespace THEN LStrip(Tail(text)) ELSE text

RECURSIVE RStrip(_)
RStrip(text) ==
  IF Len(text) > 0 /\ text[Len(text)] \in Whitespace
  THEN RStrip(SubSeq(text, 1, Len(text) - 1)) ELSE text

Strip(text) == LStrip(RStrip(text))

TagChannelFinalMessage ==
  << "<", "|", "c", "h", "a", "n", "n", "e", "l", "|", ">",
     "f", "i", "n", "a", "l",
     "<", "|", "m", "e", "s", "s", "a", "g", "e", "|", ">" >>

TagEnd == << "<", "|", "e", "n", "d", "|", ">" >>

TagThinkOpen == << "<", "t", "h", "i", "n", "k", ">" >>

TagThinkClose == << "<", "/", "t", "h", "i", "n", "k", ">" >>

\* Variant: the end marker does not end the final channel.
ExtractFinalToEndOfText(text) ==
  LET i == IndexOf(text, TagChannelFinalMessage, 1)
  IN IF i = 0 THEN text
     ELSE SubSeq(text, i + Len(TagChannelFinalMessage), Len(text))

\* re.search(r"<\|channel\|>final<\|message\|>(.*?)(?:<\|end\|>|$)", DOTALL):
\* group(1) of the leftmost match, or the text itself when nothing matches.
\* "$" matches at the end of the text and before a newline that ends it.
ExtractFinal(text) ==
  LET i == IndexOf(text, TagChannelFinalMessage, 1)
      start == i + Len(TagChannelFinalMessage)
      e == IndexOf(text, TagEnd, start)
      n == Len(text)
  IN IF i = 0 THEN text
     ELSE IF e > 0 THEN SubSeq(text, start, e - 1)
     ELSE IF n >= start /\ text[n] = "\n" THEN SubSeq(text, start, n - 1)
     ELSE SubSeq(text, start, n)

\* re.sub(r"<think>.*?</think>", "", text, flags=re.DOTALL)
RECURSIVE StripThink(_)
StripThink(text) ==
  LET i == IndexOf(text, TagThinkOpen, 1)
      j == IF i = 0 THEN 0 ELSE IndexOf(text, TagThinkClose, i + Len(TagThinkOpen))
  IN IF i = 0 \/ j = 0 THEN text
     ELSE SubSeq(text, 1, i - 1)
          \o StripThink(SubSeq(text, j + Len(TagThinkClose), Len(text)))

\* Position of the ">" closing a match of <\|[^>]+\|> that starts at i, or 0.
FramingEnd(text, i) ==
  IF i + 1 > Len(text) \/ text[i] # "<" \/ text[i + 1] # "|" THEN 0
  ELSE LET g == IndexOf(text, << ">" >>, i + 2)
       IN IF g >= i + 4 /\ text[g - 1] = "|" THEN g ELSE 0

\* re.sub(r"<\|[^>]+\|>", "", text)
RECURSIVE StripFraming(_)
StripFraming(text) ==
  LET starts == { i \in 1 .. Len(text) : FramingEnd(text, i) > 0 }
  IN IF starts = {} THEN text
     ELSE LET i == CHOOSE k \in starts : \A l \in starts : k <= l
          IN SubSeq(text, 1, i - 1)
             \o StripFraming(SubSeq(text, FramingEnd(text, i) + 1, Len(text)))

\* Length of the run of newlines that starts at position i.
RECURSIVE NewlineRun(_, _)
NewlineRun(text, i) ==
  IF i <= Len(text) /\ text[i] = "\n" THEN 1 + NewlineRun(text, i + 1) ELSE 0

\* re.sub(r"\n{3,}", "\n\n", text)
RECURSIVE CollapseNewlines(_)
CollapseNewlines(text) ==
  IF Len(text) = 0 THEN text
  ELSE LET r == NewlineRun(text, 1)
       IN IF r >= 3
          THEN << "\n", "\n" >> \o CollapseNewlines(SubSeq(text, r + 1, Len(text)))
          ELSE IF r >= 1
          THEN SubSeq(text, 1, r) \o CollapseNewlines(SubSeq(text, r + 1, Len(text)))
          ELSE << text[1] >> \o CollapseNewlines(Tail(text))

\* strip_special_tags(text); a None or empty text gives "".
strip_special_tags(text) ==
  IF ~Truthy(text) THEN << >>
  ELSE Strip(CollapseNewlines(StripFraming(StripThink(ExtractFinal(text)))))

\* ------------------------------------------------------------------------
\* Configuration (module constants of agent_service.py)
\* ------------------------------------------------------------------------

AGENT_ID == "helper-agent-1"

\* Seconds the main thread sleeps between two poll cycles.
POLL_INTERVAL == 1

\* Variant: the heartbeat loop sleeps as long as the poller does.
HeartbeatIntervalOfPoller == POLL_INTERVAL

\* Seconds the heartbeat thread sleeps between two heartbeats.
HEARTBEAT_INTERVAL == 5

AGENT_USER_ID == "llm1"

\* ------------------------------------------------------------------------
\* The backend's data: messages, user lists, registry and LLM responses
\* ------------------------------------------------------------------------

TextHi == << "h", "i" >>

\* "@Bob hey @Bot"
TextAtBot == << "@", "B", "o", "b", " ", "h", "e", "y", " ", "@", "B", "o", "t" >>

NameBot == << "B", "o", "t" >>

NameAnn == << "A", "n", "n" >>

\* Sent by another user, structured mention of the agent.
MsgA == [id |-> "a", senderId |-> "u1", timestamp |-> 100,
         mentions |-> << "llm1" >>, content |-> TextHi]

\* Sent by another user, mention by display name only.
MsgB == [id |-> "b", senderId |-> "u1", timestamp |-> 200,
         mentions |-> << >>, content |-> TextAtBot]

\* Sent by the agent itself, with both kinds of mention.
MsgC == [id |-> "c", senderId |-> "llm1", timestamp |-> 200,
         mentions |-> << "llm1" >>, content |-> TextAtBot]

\* Sent by another user, no mention.
MsgD == [id |-> "d", senderId |-> "u2", timestamp |-> 300,
         mentions |-> << >>, content |-> TextHi]

\* Sent by another user, "mentions": null.
MsgE == [id |-> "e", senderId |-> "u1", timestamp |-> 200,
         mentions |-> NullList, content |-> TextHi]

\* "hey @Bot now"
TextHeyBotNow ==
  << "h", "e", "y", " ", "@", "B", "o", "t", " ", "n", "o", "w" >>

\* "a@b.c  x @ @@d e"
TextAddress ==
  << "a", "@", "b", ".", "c", " ", " ", "x", " ", "@", " ", "@", "@", "d",
     " ", "e" >>

\* Sent by another user, a mention by name after the first word.
MsgF == [id |-> "f", senderId |-> "u1", timestamp |-> 400,
         mentions |-> << >>, content |-> TextHeyBotNow]

\* Sent by another user, "@" inside a word, alone and doubled.
MsgG == [id |-> "g", senderId |-> "u2", timestamp |-> 500,
         mentions |-> << >>, content |-> TextAddress]

Backend == { MsgA, MsgB, MsgC, MsgD, MsgE }

MessageIds == { m.id : m \in Backend }

\* Every list of at most n messages of the backend, in any order, with repeats.
RECURSIVE ListsUpTo(_)
ListsUpTo(n) ==
  IF n = 0 THEN { << >> }
  ELSE LET shorter == ListsUpTo(n - 1)
       IN shorter \cup { Append(l, m) : l \in { x \in shorter : Len(x) = n - 1 },
                                        m \in Backend }

UsersWithAgent == << [id |-> "llm1", name |-> NameBot], [id |-> "u1", name |-> NameAnn] >>

UsersWithoutAgent == << [id |-> "u1", name |-> NameAnn] >>

\* A user entry without the "id" key.
UsersMalformed == << [id |-> "llm1", name |-> NameBot], [name |-> NameAnn] >>

UserLists == { UsersWithAgent, UsersWithoutAgent, UsersMalformed }

\* GET /messages: a raised failure (timeout, connection error), or a status
\* with the body's "messages" and "users"; one error response carries a body
\* that lists a mention.
FetchResponses ==
  { [raised |-> TRUE, status |-> 0, messages |-> << >>, users |-> << >>] }
  \cup { [raised |-> FALSE, status |-> st, messages |-> << >>, users |-> << >>] :
           st \in { 401, 500 } }
  \cup { [raised |-> FALSE, status |-> 500, messages |-> << MsgA >>,
          users |-> UsersWithAgent] }
  \cup { [raised |-> FALSE, status |-> 200, messages |-> ms, users |-> us] :
           ms \in ListsUpTo(MaxFetch), us \in UserLists }

CfgPlain == [id |-> AGENT_ID, systemPrompt |-> << "P" >>,
             model |-> [provider |-> "openai", name |-> "m1"]]

\* "model": null in the registry entry.
CfgNullModel == [id |-> AGENT_ID, model |-> None]

CfgOther == [id |-> "other-agent", systemPrompt |-> << "Q" >>]

\* GET /agents
ConfigResponses ==
  { [raised |-> TRUE, status |-> 0, agents |-> << >>],
    [raised |-> FALSE, status |-> 500, agents |-> << >>],
    [raised |-> FALSE, status |-> 200, agents |-> << CfgOther >>],
    [raised |-> FALSE, status |-> 200, agents |-> << CfgOther, CfgPlain >>],
    [raised |-> FALSE, status |-> 200, agents |-> << CfgNullModel >>] }

\* Runtime endpoints and a credential alias of self-hosted entries.
EndpointA == << "e", "1" >>

EndpointB == << "e", "2" >>

KeyAlias == << "k", "1" >>

\* "model" of a registry entry; None is "model": null.
ModelValues ==
  { [provider |-> "parallax", name |-> "m1"],
    [provider |-> "openai", name |-> "m1"],
    None }

\* "runtime" of a registry entry; None is "runtime": null.
RuntimeValues ==
  { [endpoint |-> EndpointA, apiKeyAlias |-> KeyAlias],
    [endpoint |-> EndpointB],
    [endpoint |-> << >>, apiKeyAlias |-> KeyAlias],
    [apiKeyAlias |-> KeyAlias],
    None }

\* Registry entries of this agent, as an operator may have edited them.
RegistryEntries ==
  { [id |-> AGENT_ID, systemPrompt |-> sp, model |-> m, runtime |-> rt] :
      sp \in { << "P" >>, << "Q" >> }, m \in ModelValues, rt \in RuntimeValues }
  \cup { [id |-> AGENT_ID, model |-> [provider |-> "parallax", name |-> "m1"]],
         CfgPlain, CfgNullModel }

\* GET /agents, with every edit of the entry.
RegistryResponses ==
  ConfigResponses
  \cup { [raised |-> FALSE, status |-> 200, agents |-> << CfgOther, e >>] :
           e \in RegistryEntries }

\* POST /auth/login: a raised failure, or a status and the "token" cookie
\* (empty when the cookie is missing).
LoginResponses ==
  { [raised |-> TRUE, status |-> 0, token |-> << >>],
    [raised |-> FALSE, status |-> 401, token |-> << >>],
    [raised |-> FALSE, status |-> 500, token |-> << "t" >>],
    [raised |-> FALSE, status |-> 200, token |-> << >>],
    [raised |-> FALSE, status |-> 200, token |-> << "t" >>] }

\* POST /agents/{id}/heartbeat
HeartbeatResponses ==
  { [raised |-> TRUE, status |-> 0],
    [raised |-> FALSE, status |-> 500],
    [raised |-> FALSE, status |-> 200] }

ErrTimeout == << "E", "1" >>

\* "<think>x</think>hi"
TextThinkHi == TagThinkOpen \o << "x" >> \o TagThinkClose \o TextHi

\* chat_with_history: raises str(e) = err, or returns text.
LLMOutcomes ==
  { [called |-> TRUE, raised |-> TRUE, text |-> ErrTimeout],
    [called |-> TRUE, raised |-> FALSE, text |-> TextThinkHi],
    [called |-> TRUE, raised |-> FALSE, text |-> << >>] }

\* POST /agents/{id}/messages
PublishResponses ==
  { [raised |-> TRUE, status |-> 0],
    [raised |-> FALSE, status |-> 500],
    [raised |-> FALSE, status |-> 200] }

\* ------------------------------------------------------------------------
\* State
\* ------------------------------------------------------------------------

VARIABLES
  pc,                     \* position of the main thread
  last_seen_timestamp,    \* self.last_seen_timestamp (the watermark)
  processed_message_ids,  \* self.processed_message_ids
  agent_config,           \* self.agent_config
  messages,               \* run: messages of the current cycle's fetch
  users,                  \* run: users of the current cycle's fetch
  new_messages,           \* run: candidates of the current cycle
  idx,                    \* run: position of "for msg in new_messages"
  llm_result,             \* generate_reply: outcome of chat_with_history
  reply,                  \* process_message: reply
  sent,                   \* per replyToId, the publish attempts made, in order
  log,                    \* what the current cycle printed about a failure
  jwt_token,              \* self.jwt_token (empty while the attribute is unset)
  llm_client,             \* query._current_config: endpoint and credential
  config_resp,            \* fetch_agent_config: the GET /agents response in hand
  prompt,                 \* generate_reply: the turn list given to the LLM Client
  hb_pc,                  \* position of the heartbeat thread
  hb_last,                \* result of the send_heartbeat call not yet discarded
  now,                    \* the clock, in seconds
  poll_sleep_start,       \* when the main thread's current sleep began
  hb_sleep_start,         \* when the heartbeat thread's current sleep began
  poll_slept,             \* length of the main thread's last finished sleep
  hb_slept                \* length of the heartbeat thread's last finished sleep

\* What the heartbeat thread and the run-start heartbeat write.
hbVars == << hb_pc, hb_last >>

\* The clock and the measured sleeps.
clockVars == << now, poll_sleep_start, hb_sleep_start, poll_slept, hb_slept >>

\* Everything else: the state of the main thread (the poller).
pollerVars == << pc, last_seen_timestamp, processed_message_ids, agent_config,
                 messages, users, new_messages, idx, llm_result, reply, sent,
                 log, jwt_token, llm_client, config_resp, prompt >>

vars == << pc, last_seen_timestamp, processed_message_ids, agent_config,
           messages, users, new_messages, idx, llm_result, reply, sent, log,
           jwt_token, llm_client, config_resp, prompt, hb_pc, hb_last,
           now, poll_sleep_start, hb_sleep_start, poll_slept, hb_slept >>

\* query.py: the endpoint and credential the LLM Client starts with.
DEFAULT_BASE_URL == << "d", "0" >>

DEFAULT_API_KEY == << "n", "n" >>

DefaultClient == [base_url |-> DEFAULT_BASE_URL, api_key |-> DEFAULT_API_KEY]

\* No GET /agents response is in hand.
NoResponse == [raised |-> FALSE, status |-> 0, agents |-> << >>]

\* chat_with_history has not been called for the current message.
NotCalled == [called |-> FALSE, raised |-> FALSE, text |-> << >>]

\* AgentService.__init__, before login.
Init ==
  /\ pc = "login"
  /\ last_seen_timestamp = InitWatermark
  /\ processed_message_ids = {}
  /\ agent_config = None
  /\ messages = << >>
  /\ users = << >>
  /\ new_messages = << >>
  /\ idx = 1
  /\ llm_result = NotCalled
  /\ reply = << >>
  /\ sent = [m \in MessageIds |-> << >>]
  /\ log = "none"
  /\ jwt_token = << >>
  /\ llm_client = DefaultClient
  /\ config_resp = NoResponse
  /\ prompt = << >>
  /\ hb_pc = "off"
  /\ hb_last = "none"
  /\ now = 0
  /\ poll_sleep_start = 0
  /\ hb_sleep_start = 0
  /\ poll_slept = 0
  /\ hb_slept = 0

\* ------------------------------------------------------------------------
\* Helpers of the pipeline
\* ------------------------------------------------------------------------

\* The first entry of the registry list whose id is this agent's, or None.
RECURSIVE FindAgent(_)
FindAgent(agents) ==
  IF Len(agents) = 0 THEN None
  ELSE IF Get(agents[1], "id", "") = AGENT_ID THEN agents[1]
  ELSE FindAgent(Tail(agents))

\* fetch_agent_config: the value of self.agent_config after the call that
\* received resp.  Only a 200 response listing this agent assigns it.
fetch_agent_config(resp, cached) ==
  IF ~resp.raised /\ resp.status = 200 /\ FindAgent(resp.agents) # None
  THEN FindAgent(resp.agents)
  ELSE cached

\* fetch_agent_config raises inside its try block after it has assigned
\* self.agent_config: None.get for "model": null, and for "runtime": null of
\* a parallax entry.  The except clause prints the failure and returns None.
FetchAgentConfigRaises(resp) ==
  LET agent == FindAgent(resp.agents)
      model == Get(agent, "model", [x |-> 0])
      runtime == Get(agent, "runtime", [x |-> 0])
  IN /\ ~resp.raised /\ resp.status = 200 /\ agent # None
     /\ \/ model = None
        \/ Get(model, "provider", "") = "parallax" /\ runtime = None

\* query.configure: an empty argument leaves the setting as it is.
configure(client, base_url, api_key) ==
  [base_url |-> IF Truthy(base_url) THEN base_url ELSE client.base_url,
   api_key |-> IF Truthy(api_key) THEN api_key ELSE client.api_key]

\* Variant: the runtime endpoint is applied whatever the provider is.
configure_llm_any_provider(resp, client) ==
  LET agent == FindAgent(resp.agents)
      model == Get(agent, "model", [x |-> 0])
      runtime == Get(agent, "runtime", [x |-> 0])
      base_url == Get(runtime, "endpoint", << >>)
      alias == Get(runtime, "apiKeyAlias", << >>)
      api_key == IF Truthy(alias) THEN alias ELSE DEFAULT_API_KEY
  IN IF resp.raised \/ resp.status # 200 \/ agent = None THEN client
     ELSE IF model = None THEN client
     ELSE IF runtime = None THEN client
     ELSE IF Truthy(base_url) THEN configure(client, base_url, api_key)
     ELSE client

\* fetch_agent_config: the LLM Client's settings after the call that received
\* resp.  configure_llm is reached only for this agent's entry with provider
\* "parallax" and a non-empty runtime endpoint; "model": null or
\* "runtime": null raise before it.
configure_llm(resp, client) ==
  LET agent == FindAgent(resp.agents)
      model == Get(agent, "model", [x |-> 0])
      runtime == Get(agent, "runtime", [x |-> 0])
      base_url == Get(runtime, "endpoint", << >>)
      alias == Get(runtime, "apiKeyAlias", << >>)
      api_key == IF Truthy(alias) THEN alias ELSE DEFAULT_API_KEY
  IN IF resp.raised \/ resp.status # 200 \/ agent = None THEN client
     ELSE IF model = None THEN client
     ELSE IF Get(model, "provider", "") # "parallax" THEN client
     ELSE IF runtime = None THEN client
     ELSE IF Truthy(base_url) THEN configure(client, base_url, api_key)
     ELSE client

\* login: the token returned, empty for None.
login(resp) ==
  IF ~resp.raised /\ resp.status = 200 /\ Truthy(resp.token)
  THEN resp.token
  ELSE << >>

\* send_heartbeat: the value returned.
send_heartbeat(resp) == ~resp.raised /\ resp.status = 200

\* Variant: the body is read whatever the status is.
fetch_messages_any_status(resp) ==
  IF ~resp.raised
  THEN << resp.messages, resp.users >>
  ELSE << << >>, << >> >>

\* fetch_messages: the (messages, users) pair returned for resp.
fetch_messages(resp) ==
  IF ~resp.raised /\ resp.status = 200
  THEN << resp.messages, resp.users >>
  ELSE << << >>, << >> >>

\* x in list
InList(x, list) == \E i \in 1 .. Len(list) : list[i] = x

\* is_mentioned raises TypeError on "x in None".
IsMentionedRaises(message) == Get(message, "mentions", << >>) = NullList

\* Variant: the name of the agent is matched without regard to case, on the
\* texts of the model.
LowerCase(text) ==
  [k \in 1 .. Len(text) |->
     IF text[k] = "B" THEN "b" ELSE IF text[k] = "H" THEN "h" ELSE text[k]]

is_mentioned_any_case(message, us) ==
  \/ InList(AGENT_USER_ID, Get(message, "mentions", << >>))
  \/ \E i \in 1 .. Len(us) :
       /\ Get(us[i], "id", "") = AGENT_USER_ID
       /\ Truthy(Get(us[i], "name", << >>))
       /\ Contains(LowerCase(Get(message, "content", << >>)),
                   << "@" >> \o LowerCase(Get(us[i], "name", << >>)))

\* is_mentioned(message, users)
is_mentioned(message, us) ==
  \/ InList(AGENT_USER_ID, Get(message, "mentions", << >>))
  \/ \E i \in 1 .. Len(us) :
       /\ Get(us[i], "id", "") = AGENT_USER_ID
       /\ Truthy(Get(us[i], "name", << >>))
       /\ Contains(Get(message, "content", << >>),
                   << "@" >> \o Get(us[i], "name", << >>))

\* build_context raises KeyError on u["id"] for a user entry without "id".
BuildContextRaises(us) == \E i \in 1 .. Len(us) : "id" \notin DOMAIN us[i]

\* The characters of [\w\-\.] that occur in the model's texts.
TagChars ==
  { "a", "b", "c", "d", "e", "f", "g", "h", "i", "j", "k", "l", "m", "n", "o",
    "p", "q", "r", "s", "t", "u", "v", "w", "x", "y", "z",
    "A", "B", "C", "D", "E", "F", "G", "H", "I", "J", "K", "L", "M", "N", "O",
    "P", "Q", "R", "S", "T", "U", "V", "W", "X", "Y", "Z",
    "0", "1", "2", "3", "4", "5", "6", "7", "8", "9", "_", "-", "." }

\* The first position at or after from whose character is outside set.
RECURSIVE RunEnd(_, _, _)
RunEnd(text, from, set) ==
  IF from > Len(text) \/ text[from] \notin set THEN from
  ELSE RunEnd(text, from + 1, set)

\* Variant: only the run of @ tags the text starts with is removed.
RECURSIVE RemoveLeadingAtTags(_)
RemoveLeadingAtTags(text) ==
  IF Len(text) >= 2 /\ text[1] = "@" /\ text[2] \in TagChars
  THEN RemoveLeadingAtTags(SubSeq(text, RunEnd(text, RunEnd(text, 2, TagChars), Whitespace),
                                  Len(text)))
  ELSE text

\* re.sub(r"@[\w\-\.]+\s*", "", text): every "@" followed by at least one
\* tag character is removed with its tag and the whitespace after it.
RECURSIVE RemoveAtTags(_)
RemoveAtTags(text) ==
  IF Len(text) = 0 THEN << >>
  ELSE IF text[1] = "@" /\ Len(text) >= 2 /\ text[2] \in TagChars
  THEN RemoveAtTags(SubSeq(text, RunEnd(text, RunEnd(text, 2, TagChars), Whitespace),
                           Len(text)))
  ELSE << text[1] >> \o RemoveAtTags(Tail(text))

\* "User", the name of a sender the user list does not know.
TextUser == << "U", "s", "e", "r" >>

\* Variant: the first entry of the list with that id wins.
UserNameFirstListed(us, id) ==
  LET hits == { i \in 1 .. Len(us) : Get(us[i], "id", "") = id }
  IN IF hits = {} THEN TextUser
     ELSE Get(us[CHOOSE i \in hits : \A j \in hits : i <= j], "name", TextUser)

\* user_map.get(id, "User"): the last entry of the list with that id wins.
UserName(us, id) ==
  LET hits == { i \in 1 .. Len(us) : Get(us[i], "id", "") = id }
  IN IF hits = {} THEN TextUser
     ELSE Get(us[CHOOSE i \in hits : \A j \in hits : j <= i], "name", TextUser)

\* f"<Name: {sender_name}>"
NameTag(name) == << "<", "N", "a", "m", "e", ":", " " >> \o name \o << ">" >>

\* " [asking you]"
AskingYou ==
  << " ", "[", "a", "s", "k", "i", "n", "g", " ", "y", "o", "u", "]" >>

\* build_context applies strip_special_tags, the removal of the @ tags and
\* strip() to the content of a message; the result for each content that
\* occurs in the backend's messages.
CleanContent ==
  [text \in { Get(m, "content", << >>) : m \in Backend \cup { MsgF, MsgG } } |->
     Strip(RemoveAtTags(strip_special_tags(text)))]

\* Variant: every message of the trigger's sender is marked as the trigger.
TurnAskingSender(m, us, current_msg) ==
  LET sender_id == Get(m, "senderId", "")
      content == CleanContent[Get(m, "content", << >>)]
  IN IF sender_id = AGENT_USER_ID
     THEN [role |-> "assistant", content |-> content]
     ELSE [role |-> "user",
           content |-> NameTag(UserName(us, sender_id))
                       \o (IF sender_id = Get(current_msg, "senderId", "")
                           THEN AskingYou ELSE << >>)
                       \o << ":", " " >> \o content]

\* build_context: the turn made of one message of the window.
Turn(m, us, current_msg) ==
  LET sender_id == Get(m, "senderId", "")
      content == CleanContent[Get(m, "content", << >>)]
  IN IF sender_id = AGENT_USER_ID
     THEN [role |-> "assistant", content |-> content]
     ELSE [role |-> "user",
           content |-> NameTag(UserName(us, sender_id))
                       \o (IF Get(m, "id", "") = Get(current_msg, "id", "")
                           THEN AskingYou ELSE << >>)
                       \o << ":", " " >> \o content]

\* The number of messages build_context keeps.
ContextWindow == 10

\* Variant: the window is not cut.
RecentAll(ms) == ms

\* build_context: "messages[-10:] if len(messages) > 10 else messages"
Recent(ms) ==
  IF Len(ms) > ContextWindow
  THEN SubSeq(ms, Len(ms) - ContextWindow + 1, Len(ms))
  ELSE ms

\* Variant: a trigger the window has left out is appended to it.
build_context_with_trigger(ms, us, current_msg) ==
  LET window == IF \E k \in 1 .. Len(Recent(ms)) :
                     Get(Recent(ms)[k], "id", "") = Get(current_msg, "id", "")
                THEN Recent(ms)
                ELSE Append(Recent(ms), current_msg)
  IN [k \in 1 .. Len(window) |-> Turn(window[k], us, current_msg)]

\* build_context(messages, users, current_msg), for a user list it does not
\* raise on.
build_context(ms, us, current_msg) ==
  [k \in 1 .. Len(Recent(ms)) |-> Turn(Recent(ms)[k], us, current_msg)]

\* The default system prompt of generate_reply.
DefaultSystemPrompt == << "D", "S" >>

\* generate_reply: "config_system_prompt or default_system_prompt"
SystemTurn(cfg) ==
  [role |-> "system",
   content |-> IF cfg # None /\ Truthy(Get(cfg, "systemPrompt", << >>))
               THEN Get(cfg, "systemPrompt", << >>)
               ELSE DefaultSystemPrompt]

\* generate_reply: "messages = [system_prompt] + context"
LLMMessages(cfg, context) == << SystemTurn(cfg) >> \o context

\* generate_reply raises AttributeError on None.get when the cached config
\* has "model": null (the read is outside the try block).
GenerateReplyRaises(cfg) == cfg # None /\ Get(cfg, "model", [x |-> 0]) = None

\* The fixed text that precedes str(e) in the fallback reply.
FallbackPrefix == << "S", "o", "r", "r", "y", ":" >>

\* Variant: the fallback reply is a fixed apology without str(e).
generate_reply_fixed_apology(outcome) ==
  IF outcome.raised THEN FallbackPrefix
  ELSE strip_special_tags(outcome.text)

\* generate_reply: the text returned for an LLM Client outcome.
generate_reply(outcome) ==
  IF outcome.raised THEN FallbackPrefix \o outcome.text
  ELSE strip_special_tags(outcome.text)

\* Variant: a message at the watermark is a candidate too.
NewMessagesInclusive(ms, watermark, processed) ==
  SelectSeq(ms, LAMBDA m : /\ Timestamp(m) >= watermark
                           /\ Get(m, "id", "") \notin processed)

RECURSIVE Reverse(_)
Reverse(list) ==
  IF Len(list) = 0 THEN << >> ELSE Append(Reverse(Tail(list)), list[1])

\* Variant: the candidates come out newest-listed first.
NewMessagesReversed(ms, watermark, processed) ==
  Reverse(SelectSeq(ms, LAMBDA m : /\ Timestamp(m) > watermark
                                   /\ Get(m, "id", "") \notin processed))

\* The candidates of a cycle: the fetched messages newer than the watermark
\* and not yet processed, in the order of the fetched list.
NewMessages(ms, watermark, processed) ==
  SelectSeq(ms, LAMBDA m : /\ Timestamp(m) > watermark
                           /\ Get(m, "id", "") \notin processed)

\* Variant: no message counts as the agent's own.
IsOwnMessageNever(message) == FALSE

\* process_message: "sender_id == self.agent_user_id"
IsOwnMessage(message) == Get(message, "senderId", "") = AGENT_USER_ID

\* Variant: process_message does not look at the processed set.
AlreadyProcessedNever(message, processed) == FALSE

\* process_message: "msg_id in self.processed_message_ids"
AlreadyProcessed(message, processed) == Get(message, "id", "") \in processed

\* Variant: the watermark is set to the newest fetched timestamp.
NextWatermarkLatest(watermark, ms) == MaxTimestamp(ms)

\* Variant: the newest message is taken to be the last one listed.
NextWatermarkLastListed(watermark, ms) == Max2(watermark, Timestamp(ms[Len(ms)]))

\* run: the watermark after the for loop.
NextWatermark(watermark, ms) == Max2(watermark, MaxTimestamp(ms))

\* Variant: a failure raised inside the loop ends the main thread.
AfterExceptionExit == "crashed"

\* run: where a failure raised inside the try block continues, after the
\* except clause has printed it.
AfterException == "sleep"

\* The message the for loop of run is at.
msg == new_messages[idx]

\* ------------------------------------------------------------------------
\* Startup (__main__)
\* ------------------------------------------------------------------------

\* Variant: __main__ goes on whatever login returned.
AfterLoginAlways(token) == "startup_config"

\* __main__: "if token:" continues with the startup, else the process ends.
AfterLogin(token) == IF Truthy(token) THEN "startup_config" ELSE "exit"

\* service.login: a token, or None and the process ends.
Login ==
  /\ pc = "login"
  /\ \E resp \in LoginResponses :
       /\ jwt_token' = login(resp)
       /\ pc' = AfterLogin(login(resp))
  /\ UNCHANGED << last_seen_timestamp, processed_message_ids, agent_config,
                  messages, users, new_messages, idx, llm_result, reply, sent, log,
                  llm_client, config_resp, prompt, hbVars, clockVars >>

\* Variant: the fetched entry is merged into the cached one.
SyncConfigMerging(resp) ==
  /\ agent_config' =
       IF fetch_agent_config(resp, agent_config) = agent_config
       THEN agent_config
       ELSE fetch_agent_config(resp, agent_config) @@ agent_config
  /\ llm_client' = configure_llm(resp, llm_client)
  /\ config_resp' = resp

\* One call of fetch_agent_config that receives resp.
SyncConfig(resp) ==
  /\ agent_config' = fetch_agent_config(resp, agent_config)
  /\ llm_client' = configure_llm(resp, llm_client)
  /\ config_resp' = resp

\* The config sync made once at startup; run() follows whatever it returns.
StartupConfig ==
  /\ pc = "startup_config"
  /\ \E resp \in ConfigResponses : SyncConfig(resp)
  /\ pc' = "run_start"
  /\ UNCHANGED << last_seen_timestamp, processed_message_ids,
                  messages, users, new_messages, idx, llm_result, reply, sent, log,
                  jwt_token, prompt, hbVars, clockVars >>

\* run: "self._running = True" and the heartbeat sent by the main thread
\* itself, whose result is dropped.
RunStart ==
  /\ pc = "run_start"
  /\ \E resp \in HeartbeatResponses :
       hb_last' = IF send_heartbeat(resp) THEN "ok" ELSE "failed"
  /\ config_resp' = NoResponse
  /\ pc' = "start_thread"
  /\ UNCHANGED << last_seen_timestamp, processed_message_ids, agent_config,
                  messages, users, new_messages, idx, llm_result, reply, sent, log,
                  jwt_token, llm_client, prompt, hb_pc, clockVars >>

\* run: the daemon thread running _heartbeat_loop is started.
StartHeartbeatThread ==
  /\ pc = "start_thread"
  /\ hb_pc' = "send"
  /\ hb_last' = "none"
  /\ pc' = "fetch"
  /\ UNCHANGED << last_seen_timestamp, processed_message_ids, agent_config,
                  messages, users, new_messages, idx, llm_result, reply, sent, log,
                  jwt_token, llm_client, config_resp, prompt, clockVars >>

\* ------------------------------------------------------------------------
\* The polling loop (AgentService.run)
\* ------------------------------------------------------------------------

\* fetch_messages and the computation of the candidates.  An empty list
\* (also the result of every fetch failure) goes straight to the sleep.
Fetch ==
  /\ pc = "fetch"
  /\ \E resp \in FetchResponses :
       LET got == fetch_messages(resp)
       IN /\ messages' = got[1]
          /\ users' = got[2]
          /\ log' = IF resp.raised \/ resp.status # 200 THEN "fetch_failed" ELSE "none"
          /\ IF Truthy(got[1])
             THEN /\ new_messages' = NewMessages(got[1], last_seen_timestamp,
                                                 processed_message_ids)
                  /\ pc' = "dispatch"
             ELSE /\ new_messages' = << >>
                  /\ pc' = "sleep"
  /\ idx' = 1
  /\ UNCHANGED << last_seen_timestamp, processed_message_ids, agent_config,
                  llm_result, reply, sent,
                  jwt_token, llm_client, config_resp, prompt, hbVars, clockVars >>

\* Variant: process_message refreshes the config first, for every candidate.
ProcessMessageSyncFirst ==
  /\ pc = "dispatch"
  /\ idx <= Len(new_messages)
  /\ \E resp \in ConfigResponses : SyncConfig(resp)
  /\ IF IsOwnMessage(msg) \/ AlreadyProcessed(msg, processed_message_ids)
     THEN /\ idx' = idx + 1
          /\ UNCHANGED << pc, log >>
     ELSE IF IsMentionedRaises(msg)
     THEN /\ pc' = AfterException
          /\ log' = "loop_exception"
          /\ UNCHANGED idx
     ELSE IF ~is_mentioned(msg, users)
     THEN /\ idx' = idx + 1
          /\ UNCHANGED << pc, log >>
     ELSE /\ pc' = "generate"
          /\ UNCHANGED << idx, log >>
  /\ llm_result' = NotCalled
  /\ reply' = << >>
  /\ prompt' = << >>
  /\ UNCHANGED << last_seen_timestamp, processed_message_ids,
                  messages, users, new_messages, sent,
                  jwt_token, hbVars, clockVars >>

\* Variant: the pipeline of a mention is started and the for loop moves to
\* the next candidate without waiting for it.
ProcessMessageDetached ==
  /\ pc = "dispatch"
  /\ idx <= Len(new_messages)
  /\ IF IsOwnMessage(msg) \/ AlreadyProcessed(msg, processed_message_ids)
     THEN /\ idx' = idx + 1
          /\ UNCHANGED << pc, log >>
     ELSE IF IsMentionedRaises(msg)
     THEN /\ pc' = AfterException
          /\ log' = "loop_exception"
          /\ UNCHANGED idx
     ELSE IF ~is_mentioned(msg, users)
     THEN /\ idx' = idx + 1
          /\ UNCHANGED << pc, log >>
     ELSE /\ pc' = "config"
          /\ idx' = idx + 1
          /\ UNCHANGED log
  /\ llm_result' = NotCalled
  /\ reply' = << >>
  /\ prompt' = << >>
  /\ UNCHANGED << last_seen_timestamp, processed_message_ids, agent_config,
                  messages, users, new_messages, sent,
                  jwt_token, llm_client, config_resp, hbVars, clockVars >>

\* Variant: a message that is no mention is marked as processed when it is
\* skipped.
ProcessMessageMarkingSkipped ==
  /\ pc = "dispatch"
  /\ idx <= Len(new_messages)
  /\ IF IsOwnMessage(msg) \/ AlreadyProcessed(msg, processed_message_ids)
     THEN /\ idx' = idx + 1
          /\ UNCHANGED << pc, log, processed_message_ids >>
     ELSE IF IsMentionedRaises(msg)
     THEN /\ pc' = AfterException
          /\ log' = "loop_exception"
          /\ UNCHANGED << idx, processed_message_ids >>
     ELSE IF ~is_mentioned(msg, users)
     THEN /\ idx' = idx + 1
          /\ processed_message_ids' = processed_message_ids \cup { msg.id }
          /\ UNCHANGED << pc, log >>
     ELSE /\ pc' = "config"
          /\ UNCHANGED << idx, log, processed_message_ids >>
  /\ llm_result' = NotCalled
  /\ reply' = << >>
  /\ prompt' = << >>
  /\ UNCHANGED << last_seen_timestamp, agent_config,
                  messages, users, new_messages, sent,
                  jwt_token, llm_client, config_resp, hbVars, clockVars >>

\* process_message up to the mention check: return for a message of the agent
\* itself, a processed one or one that is no mention; a failure raised by
\* is_mentioned leaves the cycle through the except clause of run.  The
\* locals of the previous call are gone.
ProcessMessage ==
  /\ pc = "dispatch"
  /\ idx <= Len(new_messages)
  /\ IF IsOwnMessage(msg) \/ AlreadyProcessed(msg, processed_message_ids)
     THEN /\ idx' = idx + 1
          /\ UNCHANGED << pc, log >>
     ELSE IF IsMentionedRaises(msg)
     THEN /\ pc' = AfterException
          /\ log' = "loop_exception"
          /\ UNCHANGED idx
     ELSE IF ~is_mentioned(msg, users)
     THEN /\ idx' = idx + 1
          /\ UNCHANGED << pc, log >>
     ELSE /\ pc' = "config"
          /\ UNCHANGED << idx, log >>
  /\ llm_result' = NotCalled
  /\ reply' = << >>
  /\ prompt' = << >>
  /\ UNCHANGED << last_seen_timestamp, processed_message_ids, agent_config,
                  messages, users, new_messages, sent,
                  jwt_token, llm_client, config_resp, hbVars, clockVars >>

\* self.fetch_agent_config() before the reply; its result is not looked at.
RefreshConfig ==
  /\ pc = "config"
  /\ \E resp \in ConfigResponses : SyncConfig(resp)
  /\ pc' = "generate"
  /\ UNCHANGED << last_seen_timestamp, processed_message_ids,
                  messages, users, new_messages, idx, llm_result, reply, sent, log,
                  jwt_token, prompt, hbVars, clockVars >>

\* Variant: a failure raised by the LLM Client is not caught in generate_reply
\* and reaches the except clause of run.
GenerateReplyPropagates ==
  /\ pc = "generate"
  /\ IF BuildContextRaises(users) \/ GenerateReplyRaises(agent_config)
     THEN /\ pc' = AfterException
          /\ log' = "loop_exception"
          /\ UNCHANGED << llm_result, reply, prompt >>
     ELSE /\ prompt' = LLMMessages(agent_config, build_context(messages, users, msg))
          /\ \E outcome \in LLMOutcomes :
               /\ llm_result' = outcome
               /\ IF outcome.raised
                  THEN /\ pc' = AfterException
                       /\ log' = "loop_exception"
                       /\ UNCHANGED reply
                  ELSE /\ reply' = generate_reply(outcome)
                       /\ pc' = "publish"
                       /\ UNCHANGED log
  /\ config_resp' = NoResponse
  /\ UNCHANGED << last_seen_timestamp, processed_message_ids, agent_config,
                  messages, users, new_messages, idx, sent,
                  jwt_token, llm_client, hbVars, clockVars >>

\* Variant: a failure raised for one message is caught inside the for loop,
\* which goes on with the next candidate.
GenerateReplySkipping ==
  /\ pc = "generate"
  /\ IF BuildContextRaises(users) \/ GenerateReplyRaises(agent_config)
     THEN /\ pc' = "dispatch"
          /\ idx' = idx + 1
          /\ log' = "loop_exception"
          /\ UNCHANGED << llm_result, reply, prompt >>
     ELSE /\ prompt' = LLMMessages(agent_config, build_context(messages, users, msg))
          /\ \E outcome \in LLMOutcomes :
               /\ llm_result' = outcome
               /\ reply' = generate_reply(outcome)
          /\ pc' = "publish"
          /\ UNCHANGED << idx, log >>
  /\ config_resp' = NoResponse
  /\ UNCHANGED << last_seen_timestamp, processed_message_ids, agent_config,
                  messages, users, new_messages, sent,
                  jwt_token, llm_client, hbVars, clockVars >>

\* build_context and generate_reply: either raises into the except clause of
\* run, otherwise the LLM Client's outcome becomes the reply.
GenerateReply ==
  /\ pc = "generate"
  /\ IF BuildContextRaises(users) \/ GenerateReplyRaises(agent_config)
     THEN /\ pc' = AfterException
          /\ log' = "loop_exception"
          /\ UNCHANGED << llm_result, reply, prompt >>
     ELSE /\ prompt' = LLMMessages(agent_config, build_context(messages, users, msg))
          /\ \E outcome \in LLMOutcomes :
               /\ llm_result' = outcome
               /\ reply' = generate_reply(outcome)
          /\ pc' = "publish"
          /\ UNCHANGED log
  /\ config_resp' = NoResponse
  /\ UNCHANGED << last_seen_timestamp, processed_message_ids, agent_config,
                  messages, users, new_messages, idx, sent,
                  jwt_token, llm_client, hbVars, clockVars >>

\* send_message(reply, reply_to_id=msg_id): one POST, whose result is dropped.
SendMessage ==
  /\ pc = "publish"
  /\ \E resp \in PublishResponses :
       sent' = [sent EXCEPT ![msg.id] =
                  Append(@, [content |-> reply,
                             ok |-> ~resp.raised /\ resp.status = 200])]
  /\ pc' = "mark"
  /\ UNCHANGED << last_seen_timestamp, processed_message_ids, agent_config,
                  messages, users, new_messages, idx, llm_result, reply, log,
                  jwt_token, llm_client, config_resp, prompt, hbVars, clockVars >>

\* Variant: the identifier is marked only when the publish succeeded.
MarkProcessedIfSent ==
  /\ pc = "mark"
  /\ processed_message_ids' =
       IF sent[msg.id][Len(sent[msg.id])].ok
       THEN processed_message_ids \cup { msg.id }
       ELSE processed_message_ids
  /\ idx' = idx + 1
  /\ pc' = "dispatch"
  /\ UNCHANGED << last_seen_timestamp, agent_config, messages, users,
                  new_messages, llm_result, reply, sent, log,
                  jwt_token, llm_client, config_resp, prompt, hbVars, clockVars >>

\* self.processed_message_ids.add(msg_id), then the next candidate.
MarkProcessed ==
  /\ pc = "mark"
  /\ processed_message_ids' = processed_message_ids \cup { msg.id }
  /\ idx' = idx + 1
  /\ pc' = "dispatch"
  /\ UNCHANGED << last_seen_timestamp, agent_config, messages, users,
                  new_messages, llm_result, reply, sent, log,
                  jwt_token, llm_client, config_resp, prompt, hbVars, clockVars >>

\* After the for loop: the watermark moves to the newest timestamp fetched.
AdvanceWatermark ==
  /\ pc = "dispatch"
  /\ idx > Len(new_messages)
  /\ last_seen_timestamp' = NextWatermark(last_seen_timestamp, messages)
  /\ pc' = "sleep"
  /\ UNCHANGED << processed_message_ids, agent_config, messages, users,
                  new_messages, idx, llm_result, reply, sent, log,
                  jwt_token, llm_client, config_resp, prompt, hbVars, clockVars >>

\* time.sleep(POLL_INTERVAL), then the next cycle.  The locals of the cycle
\* that ends are dead: the next cycle assigns each of them before reading it.
Sleep ==
  /\ pc = "sleep"
  /\ pc' = "fetch"
  /\ messages' = << >>
  /\ users' = << >>
  /\ new_messages' = << >>
  /\ idx' = 1
  /\ llm_result' = NotCalled
  /\ reply' = << >>
  /\ log' = "none"
  /\ prompt' = << >>
  /\ UNCHANGED << last_seen_timestamp, processed_message_ids, agent_config, sent,
                  jwt_token, llm_client, config_resp, hbVars, clockVars >>

\* ------------------------------------------------------------------------
\* The heartbeat thread (AgentService._heartbeat_loop)
\* ------------------------------------------------------------------------

\* Variant: a failed heartbeat ends the heartbeat loop.
AfterHeartbeatStopOnFailure(ok) == IF ok THEN "sleep" ELSE "stopped"

\* _heartbeat_loop: whatever send_heartbeat returned, the sleep follows.
AfterHeartbeat(ok) == "sleep"

\* Variant: the heartbeat thread refreshes the cached config with each beat.
HeartbeatSendSyncing ==
  /\ hb_pc = "send"
  /\ \E resp \in HeartbeatResponses :
       /\ hb_last' = IF send_heartbeat(resp) THEN "ok" ELSE "failed"
       /\ hb_pc' = AfterHeartbeat(send_heartbeat(resp))
  /\ \E resp \in ConfigResponses : SyncConfig(resp)
  /\ UNCHANGED << pc, last_seen_timestamp, processed_message_ids, messages, users,
                  new_messages, idx, llm_result, reply, sent, log, jwt_token,
                  prompt, clockVars >>

\* send_heartbeat in the heartbeat thread: one POST built from the agent id,
\* the agent token and the base URL; a failure is printed and False returned.
HeartbeatSend ==
  /\ hb_pc = "send"
  /\ \E resp \in HeartbeatResponses :
       /\ hb_last' = IF send_heartbeat(resp) THEN "ok" ELSE "failed"
       /\ hb_pc' = AfterHeartbeat(send_heartbeat(resp))
  /\ UNCHANGED << pollerVars, clockVars >>

\* time.sleep(HEARTBEAT_INTERVAL), then "while self._running", which nothing
\* ever makes false.  The result of the call is no longer held.
HeartbeatSleep ==
  /\ hb_pc = "sleep"
  /\ hb_pc' = "send"
  /\ hb_last' = "none"
  /\ UNCHANGED << pollerVars, clockVars >>

Next ==
  \/ Login
  \/ StartupConfig
  \/ RunStart
  \/ StartHeartbeatThread
  \/ Fetch
  \/ ProcessMessage
  \/ RefreshConfig
  \/ GenerateReply
  \/ SendMessage
  \/ MarkProcessed
  \/ AdvanceWatermark
  \/ Sleep

Spec == Init /\ [][Next]_vars

\* fetch_agent_config called again and again, on registry responses that cover
\* every edit of the agent's entry: the calls of StartupConfig and
\* RefreshConfig, with what the main thread does in between left out.
RegistrySync ==
  /\ \E resp \in RegistryResponses : SyncConfig(resp)
  /\ UNCHANGED << pc, last_seen_timestamp, processed_message_ids, messages, users,
                  new_messages, idx, llm_result, reply, sent, log, jwt_token,
                  prompt, hbVars, clockVars >>

\* The state in which the startup sync is called.
CfgInit ==
  /\ pc = "startup_config"
  /\ last_seen_timestamp = InitWatermark
  /\ processed_message_ids = {}
  /\ agent_config = None
  /\ messages = << >>
  /\ users = << >>
  /\ new_messages = << >>
  /\ idx = 1
  /\ llm_result = NotCalled
  /\ reply = << >>
  /\ sent = [m \in MessageIds |-> << >>]
  /\ log = "none"
  /\ jwt_token = << "t" >>
  /\ llm_client = DefaultClient
  /\ config_resp = NoResponse
  /\ prompt = << >>
  /\ hb_pc = "off"
  /\ hb_last = "none"
  /\ now = 0
  /\ poll_sleep_start = 0
  /\ hb_sleep_start = 0
  /\ poll_slept = 0
  /\ hb_slept = 0

CfgSpec == CfgInit /\ [][RegistrySync]_vars

\* ------------------------------------------------------------------------
\* The context of one reply
\* ------------------------------------------------------------------------

\* Fetched lists of up to MaxContext messages, each sent by another user or
\* by the agent itself.
ContextLists == UNION { [1 .. k -> { MsgA, MsgC }] : k \in 0 .. MaxContext }

\* process_message is about to call build_context and generate_reply for the
\* mention MsgA, with any such list as the cycle's fetched messages and with
\* or without a cached config.
CtxInit ==
  /\ pc = "generate"
  /\ last_seen_timestamp = InitWatermark
  /\ processed_message_ids = {}
  /\ agent_config \in { None, CfgPlain }
  /\ messages \in ContextLists
  /\ users = UsersWithAgent
  /\ new_messages = << MsgA >>
  /\ idx = 1
  /\ llm_result = NotCalled
  /\ reply = << >>
  /\ sent = [m \in MessageIds |-> << >>]
  /\ log = "none"
  /\ jwt_token = << "t" >>
  /\ llm_client = DefaultClient
  /\ config_resp = NoResponse
  /\ prompt = << >>
  /\ hb_pc = "send"
  /\ hb_last = "none"
  /\ now = 0
  /\ poll_sleep_start = 0
  /\ hb_sleep_start = 0
  /\ poll_slept = 0
  /\ hb_slept = 0

ContextSpec == CtxInit /\ [][GenerateReply]_vars

\* ------------------------------------------------------------------------
\* The turns of one reply
\* ------------------------------------------------------------------------

\* The messages of the conversation a fetched list is made of: three of a
\* known user, one of the agent, two of a user the user list may not know.
TurnMessages == { MsgA, MsgB, MsgC, MsgD, MsgF, MsgG }

\* A user list that lists one user twice and another without a name.
UsersTwice ==
  << [id |-> "u1", name |-> NameBot], [id |-> "llm1", name |-> NameBot],
     [id |-> "u1", name |-> NameAnn], [id |-> "u2"] >>

\* Fetched lists that list each message of the conversation at most once, in
\* any order.
TurnLists ==
  { l \in UNION { [1 .. k -> TurnMessages] : k \in 0 .. Cardinality(TurnMessages) } :
      \A i, j \in 1 .. Len(l) : i # j => l[i].id # l[j].id }

\* process_message is about to call build_context and generate_reply for a
\* mention of the known user, which the fetched list holds or not, with the
\* agent in the user list or not, and with or without a cached config.
TurnInit ==
  /\ pc = "generate"
  /\ last_seen_timestamp = InitWatermark
  /\ processed_message_ids = {}
  /\ agent_config \in { None, CfgPlain }
  /\ messages \in TurnLists
  /\ users \in { UsersWithAgent, UsersWithoutAgent, UsersTwice }
  /\ new_messages \in { << MsgA >>, << MsgB >> }
  /\ idx = 1
  /\ llm_result = NotCalled
  /\ reply = << >>
  /\ sent = [m \in MessageIds |-> << >>]
  /\ log = "none"
  /\ jwt_token = << "t" >>
  /\ llm_client = DefaultClient
  /\ config_resp = NoResponse
  /\ prompt = << >>
  /\ hb_pc = "send"
  /\ hb_last = "none"
  /\ now = 0
  /\ poll_sleep_start = 0
  /\ hb_sleep_start = 0
  /\ poll_slept = 0
  /\ hb_slept = 0

TurnSpec == TurnInit /\ [][GenerateReply]_vars

\* ------------------------------------------------------------------------
\* The mention check of one message
\* ------------------------------------------------------------------------

\* "@Bob hey @Bot can you help"
TextAtBotHelp ==
  << "@", "B", "o", "b", " ", "h", "e", "y", " ", "@", "B", "o", "t", " ",
     "c", "a", "n", " ", "y", "o", "u", " ", "h", "e", "l", "p" >>

\* "hello everyone"
TextHello ==
  << "h", "e", "l", "l", "o", " ", "e", "v", "e", "r", "y", "o", "n", "e" >>

\* Contents that name the agent in full, in another case, in part, inside a
\* longer word, or not at all.
MentionContents ==
  { TextAtBotHelp, TextHello, TextAtBot, TextHi,
    << "h", "i", " ", "@", "b", "o", "t" >>,
    << "@", "B", "o", " ", "h", "i" >>,
    << "x", "@", "B", "o", "t", "s" >>,
    << "B", "o", "t", " ", "@" >> }

\* The structured mention lists of a message.
MentionLists == { << >>, << "llm1" >>, << "u1" >>, << "u1", "llm1" >> }

\* Messages of another user, with and without a "mentions" field.
MentionMessages ==
  { [id |-> "a", senderId |-> "u1", timestamp |-> 100, content |-> c] :
      c \in MentionContents }
  \cup
  { [id |-> "a", senderId |-> "u1", timestamp |-> 100, mentions |-> l,
     content |-> c] : l \in MentionLists, c \in MentionContents }

\* User lists: the agent listed with its name, not listed, listed with an
\* empty name, without a name, with a name in another case, listed twice.
MentionUserLists ==
  { UsersWithAgent, UsersWithoutAgent,
    << [id |-> "u1", name |-> NameAnn], [id |-> "llm1", name |-> << >>] >>,
    << [id |-> "llm1"], [id |-> "u1", name |-> NameAnn] >>,
    << [id |-> "llm1", name |-> << "b", "o", "t" >>] >>,
    << [id |-> "llm1", name |-> << >>], [id |-> "u1", name |-> NameBot],
       [id |-> "llm1", name |-> NameBot] >>,
    << [id |-> "u1", name |-> NameBot] >> }

\* The for loop of run is about to call process_message for one new message
\* of another user.
MentionInit ==
  /\ pc = "dispatch"
  /\ last_seen_timestamp = InitWatermark
  /\ processed_message_ids = {}
  /\ agent_config = None
  /\ \E m \in MentionMessages :
       /\ messages = << m >>
       /\ new_messages = << m >>
  /\ users \in MentionUserLists
  /\ idx = 1
  /\ llm_result = NotCalled
  /\ reply = << >>
  /\ sent = [m \in MessageIds |-> << >>]
  /\ log = "none"
  /\ jwt_token = << "t" >>
  /\ llm_client = DefaultClient
  /\ config_resp = NoResponse
  /\ prompt = << >>
  /\ hb_pc = "send"
  /\ hb_last = "none"
  /\ now = 0
  /\ poll_sleep_start = 0
  /\ hb_sleep_start = 0
  /\ poll_slept = 0
  /\ hb_slept = 0

MentionSpec == MentionInit /\ [][ProcessMessage]_vars

\* ------------------------------------------------------------------------
\* The sanitizer on one completion
\* ------------------------------------------------------------------------

\* The pieces raw completions are made of: the markers of the sanitizer, the
\* two halves of a framing token, a letter, a newline and a blank.
Pieces ==
  { TagChannelFinalMessage, TagEnd, TagThinkOpen, TagThinkClose,
    << "<" >>, << "|", "a", "|", ">" >>, << "a" >>, << "\n" >>, << " " >> }

RECURSIVE Join(_)
Join(ps) == IF Len(ps) = 0 THEN << >> ELSE Head(ps) \o Join(Tail(ps))

\* "<|channel|>analysis<|message|>ignored<|end|><|start|>assistant
\*  <|channel|>final<|message|>Hello<|end|>" (one line)
ExampleChannels ==
  << "<", "|", "c", "h", "a", "n", "n", "e", "l", "|", ">", "a", "n", "a",
     "l", "y", "s", "i", "s", "<", "|", "m", "e", "s", "s", "a", "g", "e",
     "|", ">", "i", "g", "n", "o", "r", "e", "d", "<", "|", "e", "n", "d",
     "|", ">", "<", "|", "s", "t", "a", "r", "t", "|", ">", "a", "s", "s",
     "i", "s", "t", "a", "n", "t", "<", "|", "c", "h", "a", "n", "n", "e",
     "l", "|", ">", "f", "i", "n", "a", "l", "<", "|", "m", "e", "s", "s",
     "a", "g", "e", "|", ">", "H", "e", "l", "l", "o", "<", "|", "e", "n",
     "d", "|", ">" >>

\* "<think>reasoning</think>Answer"
ExampleThink ==
  << "<", "t", "h", "i", "n", "k", ">", "r", "e", "a", "s", "o", "n", "i",
     "n", "g", "<", "/", "t", "h", "i", "n", "k", ">", "A", "n", "s", "w",
     "e", "r" >>

\* "<thi<|end|>nk>a</think>b"
ExampleSplitThink ==
  << "<", "t", "h", "i", "<", "|", "e", "n", "d", "|", ">", "n", "k", ">",
     "a", "<", "/", "t", "h", "i", "n", "k", ">", "b" >>

\* The texts chat_with_history returns here: every concatenation of up to
\* MaxPieces pieces, and the three examples.
RawCompletions ==
  { Join(ps) : ps \in UNION { [1 .. k -> Pieces] : k \in 0 .. MaxPieces } }
  \cup { ExampleChannels, ExampleThink, ExampleSplitThink }

\* generate_reply from the return of chat_with_history on: the completion
\* goes through strip_special_tags and the result is the reply.
SanitizeReply ==
  /\ pc = "generate"
  /\ \E raw \in RawCompletions :
       /\ llm_result' = [called |-> TRUE, raised |-> FALSE, text |-> raw]
       /\ reply' = generate_reply([called |-> TRUE, raised |-> FALSE, text |-> raw])
  /\ pc' = "publish"
  /\ UNCHANGED << last_seen_timestamp, processed_message_ids, agent_config,
                  messages, users, new_messages, idx, sent, log,
                  jwt_token, llm_client, config_resp, prompt, hbVars, clockVars >>

\* process_message has built the context for the mention MsgA and
\* generate_reply has called the LLM Client.
SanitizeInit ==
  /\ pc = "generate"
  /\ last_seen_timestamp = InitWatermark
  /\ processed_message_ids = {}
  /\ agent_config = None
  /\ messages = << MsgA >>
  /\ users = UsersWithAgent
  /\ new_messages = << MsgA >>
  /\ idx = 1
  /\ llm_result = NotCalled
  /\ reply = << >>
  /\ sent = [m \in MessageIds |-> << >>]
  /\ log = "none"
  /\ jwt_token = << "t" >>
  /\ llm_client = DefaultClient
  /\ config_resp = NoResponse
  /\ prompt = LLMMessages(None, build_context(<< MsgA >>, UsersWithAgent, MsgA))
  /\ hb_pc = "send"
  /\ hb_last = "none"
  /\ now = 0
  /\ poll_sleep_start = 0
  /\ hb_sleep_start = 0
  /\ poll_slept = 0
  /\ hb_slept = 0

SanitizeSpec == SanitizeInit /\ [][SanitizeReply \/ SendMessage]_vars

\* ------------------------------------------------------------------------
\* A trigger inside or outside the window
\* ------------------------------------------------------------------------

\* Identifiers of the other messages of a long conversation.
FillerIds ==
  << "h1", "h2", "h3", "h4", "h5", "h6", "h7", "h8",
     "h9", "h10", "h11", "h12", "h13", "h14", "h15", "h16" >>

\* A fetched list of n messages with distinct ids: the trigger at position p,
\* around it messages of one sender with one content, none of them a
\* structured mention.
WindowList(n, p, trigger, sender, content) ==
  [i \in 1 .. n |->
     IF i = p THEN trigger
     ELSE [id |-> FillerIds[i], senderId |-> sender, timestamp |-> 60 + i,
           mentions |-> << >>, content |-> content]]

\* The lists of up to MaxContext messages that hold the trigger, the others
\* sent by the agent or by another user.
WindowLists(trigger) ==
  { WindowList(n, p, trigger, sender, content) :
      n \in 1 .. MaxContext, p \in 1 .. MaxContext,
      sender \in { AGENT_USER_ID, "u2" },
      content \in { TextHeyBotNow, TextAddress } }

\* process_message is about to call build_context and generate_reply for a
\* mention that the cycle's fetched list holds at any position.
WindowInit ==
  /\ pc = "generate"
  /\ last_seen_timestamp = InitWatermark
  /\ processed_message_ids = {}
  /\ agent_config \in { None, CfgPlain }
  /\ \E trigger \in { MsgA, MsgB } :
       /\ new_messages = << trigger >>
       /\ messages \in { l \in WindowLists(trigger) :
                           \E p \in 1 .. Len(l) : l[p] = trigger }
  /\ users \in { UsersWithAgent, UsersTwice }
  /\ idx = 1
  /\ llm_result = NotCalled
  /\ reply = << >>
  /\ sent = [m \in MessageIds |-> << >>]
  /\ log = "none"
  /\ jwt_token = << "t" >>
  /\ llm_client = DefaultClient
  /\ config_resp = NoResponse
  /\ prompt = << >>
  /\ hb_pc = "send"
  /\ hb_last = "none"
  /\ now = 0
  /\ poll_sleep_start = 0
  /\ hb_sleep_start = 0
  /\ poll_slept = 0
  /\ hb_slept = 0

\* build_context and generate_reply, send_message, the add to the processed
\* set: the rest of process_message.
WindowNext == GenerateReply \/ SendMessage \/ MarkProcessed

WindowSpec == WindowInit /\ [][WindowNext]_vars

\* ------------------------------------------------------------------------
\* The two sleeps on a clock
\* ------------------------------------------------------------------------

\* One second passes.  A sleeping thread wakes when its interval is over, so
\* the clock does not pass the end of a sleep; a thread that is not sleeping
\* (network calls, the pipeline) may take any time.
Tick ==
  /\ now < MaxTime
  /\ pc = "sleep" => now < poll_sleep_start + POLL_INTERVAL
  /\ hb_pc = "sleep" => now < hb_sleep_start + HEARTBEAT_INTERVAL
  /\ now' = now + 1
  /\ UNCHANGED << pollerVars, hbVars, poll_sleep_start, hb_sleep_start,
                  poll_slept, hb_slept >>

\* run: one pass of the while loop up to time.sleep(POLL_INTERVAL); what the
\* pass does to the messages is left out here.
TimedCycle ==
  /\ pc = "fetch"
  /\ pc' = "sleep"
  /\ poll_sleep_start' = now
  /\ UNCHANGED << last_seen_timestamp, processed_message_ids, agent_config,
                  messages, users, new_messages, idx, llm_result, reply, sent, log,
                  jwt_token, llm_client, config_resp, prompt, hbVars,
                  now, hb_sleep_start, poll_slept, hb_slept >>

\* run: time.sleep(POLL_INTERVAL) returns.
TimedWake ==
  /\ pc = "sleep"
  /\ now = poll_sleep_start + POLL_INTERVAL
  /\ pc' = "fetch"
  /\ poll_slept' = now - poll_sleep_start
  /\ UNCHANGED << last_seen_timestamp, processed_message_ids, agent_config,
                  messages, users, new_messages, idx, llm_result, reply, sent, log,
                  jwt_token, llm_client, config_resp, prompt, hbVars,
                  now, poll_sleep_start, hb_sleep_start, hb_slept >>

\* _heartbeat_loop: send_heartbeat, then time.sleep(HEARTBEAT_INTERVAL) begins.
TimedHeartbeat ==
  /\ hb_pc = "send"
  /\ \E resp \in HeartbeatResponses :
       /\ hb_last' = IF send_heartbeat(resp) THEN "ok" ELSE "failed"
       /\ hb_pc' = AfterHeartbeat(send_heartbeat(resp))
  /\ hb_sleep_start' = now
  /\ UNCHANGED << pollerVars, now, poll_sleep_start, poll_slept, hb_slept >>

\* _heartbeat_loop: time.sleep(HEARTBEAT_INTERVAL) returns.
TimedHeartbeatWake ==
  /\ hb_pc = "sleep"
  /\ now = hb_sleep_start + HEARTBEAT_INTERVAL
  /\ hb_pc' = "send"
  /\ hb_last' = "none"
  /\ hb_slept' = now - hb_sleep_start
  /\ UNCHANGED << pollerVars, now, poll_sleep_start, hb_sleep_start, poll_slept >>

\* run has started the heartbeat thread and is about to enter its loop.
TimedInit ==
  /\ pc = "fetch"
  /\ last_seen_timestamp = InitWatermark
  /\ processed_message_ids = {}
  /\ agent_config = None
  /\ messages = << >>
  /\ users = << >>
  /\ new_messages = << >>
  /\ idx = 1
  /\ llm_result = NotCalled
  /\ reply = << >>
  /\ sent = [m \in MessageIds |-> << >>]
  /\ log = "none"
  /\ jwt_token = << "t" >>
  /\ llm_client = DefaultClient
  /\ config_resp = NoResponse
  /\ prompt = << >>
  /\ hb_pc = "send"
  /\ hb_last = "none"
  /\ now = 0
  /\ poll_sleep_start = 0
  /\ hb_sleep_start = 0
  /\ poll_slept = 0
  /\ hb_slept = 0

TimedNext ==
  \/ Tick
  \/ TimedCycle
  \/ TimedWake
  \/ TimedHeartbeat
  \/ TimedHeartbeatWake

TimedSpec == TimedInit /\ [][TimedNext]_vars

\* The main thread is never blocked for ever: every network call has a timeout.
FairSpec == Spec /\ WF_vars(Next)

\* The steps of the heartbeat thread.
HeartbeatNext ==
  \/ HeartbeatSend
  \/ HeartbeatSleep

\* Both threads, interleaved.
ThreadsSpec == Init /\ [][Next \/ HeartbeatNext]_vars

\* The heartbeat thread keeps being scheduled, whatever the main thread does:
\* its network call has a timeout and its sleep ends.
FairThreadsSpec == ThreadsSpec /\ WF_vars(HeartbeatNext)

\* ------------------------------------------------------------------------
\* Properties
\* ------------------------------------------------------------------------

\* Positions of the main thread inside the dispatch phase of a cycle.
DispatchPcs == { "dispatch", "config", "generate", "publish", "mark" }

\* Positions inside the pipeline of one mention.
PipelinePcs == { "config", "generate", "publish", "mark" }

\* C1: at most one publish attempt is ever made with replyToId equal to a
\* given message identifier, and while the main thread is not inside the
\* pipeline of m, an identifier m in the processed set has exactly the one
\* attempt that preceded its marking.
AtMostOnceReply ==
  \A m \in MessageIds :
    /\ Len(sent[m]) <= 1
    /\ (m \in processed_message_ids => Len(sent[m]) = 1)

\* C1 witness: the fetch listed message a twice; the first entry was replied
\* to and marked, the second entry was dispatched and returned without a
\* second publish.
AtMostOnceReplyWitness ==
  /\ pc = "dispatch"
  /\ new_messages = << MsgA, MsgA >>
  /\ idx = 3
  /\ Len(sent["a"]) = 1

\* C2: no step lowers the watermark.
WatermarkMonotonic ==
  [][last_seen_timestamp' >= last_seen_timestamp]_vars

\* C2 witness: a cycle whose fetch held only messages older than the
\* watermark has finished its dispatch phase and the watermark kept its value.
WatermarkMonotonicWitness ==
  /\ pc = "sleep"
  /\ log = "none"
  /\ Truthy(messages)
  /\ MaxTimestamp(messages) < last_seen_timestamp

\* The step that ends the dispatch phase of a cycle whose fetch returned
\* messages.
EndsDispatchPhase == pc \in DispatchPcs /\ pc' = "sleep"

\* w is the larger of the watermark before the step and the newest timestamp
\* of the fetched list.
IsMaxSeen(w) ==
  /\ w >= last_seen_timestamp
  /\ \A i \in 1 .. Len(messages) : w >= Timestamp(messages[i])
  /\ \/ w = last_seen_timestamp
     \/ \E i \in 1 .. Len(messages) : w = Timestamp(messages[i])

\* C3 as stated: at the end of the dispatch phase of every poll cycle the
\* watermark is max(previous watermark, newest fetched timestamp).
WatermarkTracksSeenEveryCycle ==
  [][EndsDispatchPhase => IsMaxSeen(last_seen_timestamp')]_vars

\* C3 amended: the same, for every cycle whose dispatch phase ends without a
\* raised failure; a cycle aborted by a raised failure keeps the watermark.
WatermarkTracksSeen ==
  [][EndsDispatchPhase =>
       IF log' = "loop_exception"
       THEN last_seen_timestamp' = last_seen_timestamp
       ELSE IsMaxSeen(last_seen_timestamp')]_vars

\* C3 witness: the cycle fetched a mention (replied to) and a newer message
\* that is no mention (never replied to); the watermark is at the newer one.
WatermarkTracksSeenWitness ==
  /\ pc = "sleep"
  /\ log = "none"
  /\ messages = << MsgD, MsgA >>
  /\ Len(sent["a"]) = 1
  /\ sent["d"] = << >>
  /\ last_seen_timestamp = Timestamp(MsgD)

\* C4: during the dispatch phase (the watermark still has its value of the
\* start of the cycle) every candidate is a fetched message with a timestamp
\* strictly above the watermark, and its identifier was not processed when
\* the candidates were computed: if it is processed now, it or an earlier
\* candidate of this cycle with the same identifier has been dispatched.
EligibilityFilter ==
  pc \in DispatchPcs =>
    \A i \in 1 .. Len(new_messages) :
      /\ InList(new_messages[i], messages)
      /\ Timestamp(new_messages[i]) > last_seen_timestamp
      /\ new_messages[i].id \in processed_message_ids =>
           \E j \in 1 .. (idx - 1) : j <= i /\ new_messages[j].id = new_messages[i].id

\* C4 witness: the fetch returned message a, older than the watermark and
\* never processed, together with a newer message; only the newer one is a
\* candidate.
EligibilityFilterWitness ==
  /\ pc = "dispatch"
  /\ messages = << MsgA, MsgD >>
  /\ last_seen_timestamp = Timestamp(MsgB)
  /\ "a" \notin processed_message_ids
  /\ new_messages = << MsgD >>

\* C5 as stated: the candidates dispatched so far in a cycle were dispatched
\* in ascending timestamp order, whatever the order of the fetched list.
DispatchAscending ==
  pc \in DispatchPcs =>
    \A i, j \in 1 .. Len(new_messages) :
      (i < j /\ j <= idx) => Timestamp(new_messages[i]) <= Timestamp(new_messages[j])

\* C5 amended: the candidates are dispatched one after the other in the order
\* in which the fetched list holds them, which is ascending timestamp order
\* when the backend lists the messages in that order.
DispatchInFetchOrder ==
  pc \in DispatchPcs =>
    /\ \A i, j \in 1 .. Len(new_messages) :
         i < j => \E p, q \in 1 .. Len(messages) :
                    /\ p < q
                    /\ messages[p] = new_messages[i]
                    /\ messages[q] = new_messages[j]
    /\ \A i \in 1 .. Len(new_messages) :
         (/\ i > idx
          /\ ~IsOwnMessage(new_messages[i])
          /\ \A j \in 1 .. idx : new_messages[j].id # new_messages[i].id)
         => Len(sent[new_messages[i].id]) = 0

\* C5 witness: watermark 50, fetched timestamps 100 then 200: the message
\* with 100 has its reply, the one with 200 is being dispatched.
DispatchInFetchOrderWitness ==
  /\ pc = "config"
  /\ last_seen_timestamp = InitWatermark
  /\ new_messages = << MsgA, MsgB >>
  /\ idx = 2
  /\ Len(sent["a"]) = 1
  /\ sent["b"] = << >>

\* C6: a message sent by the agent itself never enters the pipeline (config
\* refresh, LLM call, publish) and never gets a reply.
SelfMute ==
  /\ pc \in PipelinePcs => ~(msg.senderId = AGENT_USER_ID)
  /\ \A m \in Backend : m.senderId = AGENT_USER_ID => sent[m.id] = << >>

\* C6 witness: the agent's own message, with a structured mention and the
\* literal @Bot, was a candidate and was dispatched; nothing followed.
SelfMuteWitness ==
  /\ pc = "dispatch"
  /\ users = UsersWithAgent
  /\ new_messages = << MsgC >>
  /\ idx = 2
  /\ llm_result = NotCalled
  /\ sent["c"] = << >>

\* The last publish attempt made with replyToId m.
LastSent(m) == sent[m][Len(sent[m])]

\* Positions of the main thread before the loop, and after a failed login.
OutsideLoop == { "login", "startup_config", "run_start", "start_thread", "exit" }

\* C7: a fetch failure or a failure raised while dispatching leaves the main
\* thread at the sleep step of that cycle, and once the loop is entered the
\* main thread is at the sleep step infinitely often and at the fetch
\* infinitely often.
PollerNeverStops ==
  /\ [](log \in { "fetch_failed", "loop_exception" } => pc = "sleep")
  /\ []<>(pc \in OutsideLoop \/ pc = "sleep")
  /\ []<>(pc \in OutsideLoop \/ pc = "fetch")

\* C7 witness: a new cycle is about to fetch after a cycle that replied to
\* message a and was then aborted by a raised failure (the watermark did not
\* move although a was processed).
PollerNeverStopsWitness ==
  /\ pc = "fetch"
  /\ "a" \in processed_message_ids
  /\ last_seen_timestamp = InitWatermark

\* C8: when chat_with_history raised for the current trigger, the failure does
\* not reach the except clause of run; the reply is a non-empty text that
\* contains the error description, it is the content of the publish attempt
\* made with replyToId of the trigger, and the trigger is marked processed
\* when its dispatch returns.
LLMFailureDegrades ==
  (llm_result.called /\ llm_result.raised) =>
    /\ Truthy(reply)
    /\ Contains(reply, llm_result.text)
    /\ log # "loop_exception"
    /\ pc \in { "publish", "mark", "dispatch", "sleep" }
    /\ pc = "mark" => LastSent(msg.id).content = reply
    /\ pc \in { "dispatch", "sleep" } =>
         /\ idx > 1
         /\ LastSent(new_messages[idx - 1].id).content = reply
         /\ new_messages[idx - 1].id \in processed_message_ids

\* C8 witness: the LLM Client raised "E1" for message a; the fallback was
\* published (the POST failed as well) and a is marked processed.
LLMFailureDegradesWitness ==
  /\ pc = "dispatch"
  /\ llm_result.raised
  /\ llm_result.text = ErrTimeout
  /\ new_messages[idx - 1] = MsgA
  /\ sent["a"] = << [content |-> FallbackPrefix \o ErrTimeout, ok |-> FALSE] >>
  /\ "a" \in processed_message_ids

\* C9: a message whose publish attempt failed has exactly that one attempt,
\* for ever, and is in the processed set as soon as the step after the
\* attempt has been taken.
NoRedelivery ==
  \A m \in MessageIds :
    (Len(sent[m]) >= 1 /\ ~sent[m][1].ok) =>
      /\ Len(sent[m]) = 1
      /\ m \in processed_message_ids \/ (pc = "mark" /\ msg.id = m)

\* C9 witness: the publish for message a failed in a cycle that was aborted
\* later, so the watermark is still below a; a later cycle fetched a again
\* and has no candidate.
NoRedeliveryWitness ==
  /\ pc = "dispatch"
  /\ messages = << MsgA >>
  /\ new_messages = << >>
  /\ last_seen_timestamp < Timestamp(MsgA)
  /\ Len(sent["a"]) = 1
  /\ ~sent["a"][1].ok
  /\ "a" \in processed_message_ids

\* m was fetched in this cycle, is newer than the watermark, was sent by
\* another user and mentions the agent.
FetchedMention(m) ==
  /\ InList(m, messages)
  /\ Timestamp(m) > last_seen_timestamp
  /\ ~IsOwnMessage(m)
  /\ ~IsMentionedRaises(m)
  /\ is_mentioned(m, users)

HeartbeatIsolation ==
  /\ [][(hb_pc # "off" /\ hbVars' # hbVars) => UNCHANGED pollerVars]_vars
  /\ [][Next]_pollerVars

\* C11 witness: the heartbeat thread has sent a heartbeat and sleeps while the
\* poller is in the middle of a pipeline of a later cycle.
HeartbeatIsolationWitness ==
  /\ hb_pc = "sleep"
  /\ hb_last = "ok"
  /\ pc = "publish"
  /\ processed_message_ids # {}
  /\ agent_config = CfgPlain

\* C12: a heartbeat that fails (raised failure or a status other than 200) is
\* followed by the sleep of the heartbeat loop and changes no variable of the
\* poller, so the poller can take the steps it could take before; when the
\* heartbeat thread keeps being scheduled, then once started it is at a new
\* heartbeat attempt again and again, whatever the earlier attempts returned.
HeartbeatFailuresSwallowed ==
  /\ [][(hb_pc = "send" /\ hb_last' = "failed")
        => (hb_pc' = "sleep" /\ UNCHANGED pollerVars)]_vars
  /\ []<>(hb_pc = "off" \/ hb_pc = "send")

\* C12 witness: the heartbeat just attempted has failed while the poller is
\* about to call the LLM Client in a later cycle.
HeartbeatFailuresSwallowedWitness ==
  /\ hb_pc = "sleep"
  /\ hb_last = "failed"
  /\ pc = "generate"
  /\ processed_message_ids # {}

\* ------------------------------------------------------------------------
\* Dispatch and config sync
\* ------------------------------------------------------------------------

\* process_message has returned for m: it skipped m, or it made the publish
\* attempt for m and marked it.
PipelineDone(m) ==
  \/ IsOwnMessage(m)
  \/ ~IsMentionedRaises(m) /\ ~is_mentioned(m, users)
  \/ /\ Get(m, "id", "") \in processed_message_ids
     /\ Len(sent[Get(m, "id", "")]) = 1

\* C13: during the dispatch phase the for loop is at one candidate; the
\* pipeline of every candidate before it has run to its end (skipped, or
\* published and marked), the LLM Client has been called for no other
\* candidate than the one the loop is at, and no candidate after it (that is
\* not a second listing of an earlier one) has been published or marked, so
\* the publish attempts are made in the order of dispatch.
SequentialDispatch ==
  pc \in DispatchPcs =>
    /\ idx \in 1 .. (Len(new_messages) + 1)
    /\ (pc \in PipelinePcs => idx <= Len(new_messages))
    /\ (llm_result.called => pc \in { "publish", "mark", "dispatch" })
    /\ \A i \in 1 .. Len(new_messages) :
         /\ (i < idx => PipelineDone(new_messages[i]))
         /\ ( ( /\ i >= idx
                /\ \A j \in 1 .. (i - 1) : new_messages[j].id # new_messages[i].id )
              => /\ new_messages[i].id \notin processed_message_ids
                 /\ (i > idx \/ pc # "mark" => sent[new_messages[i].id] = << >>) )

\* C13 witness: the second candidate of a cycle has just been published and
\* is about to be marked; the first has been published and marked before.
SequentialDispatchWitness ==
  /\ pc = "mark"
  /\ idx = 2
  /\ new_messages = << MsgB, MsgA >>
  /\ "b" \in processed_message_ids
  /\ Len(sent["b"]) = 1
  /\ Len(sent["a"]) = 1

\* C14: a GET /agents response is in hand only right after the startup sync
\* and, inside the loop, right after the one sync of a pipeline run; that sync
\* is made for a candidate that is not the agent's own, not processed and a
\* mention, before the context is built and before the LLM Client is called,
\* and it starts from no response in hand (one sync per run); at no other
\* position (skipped candidate, sleep, fetch, cycle without a mention) is a
\* sync made.
ConfigSyncTiming ==
  /\ [](/\ (config_resp # NoResponse => pc \in { "run_start", "generate" })
        /\ (pc = "generate" => config_resp # NoResponse)
        /\ (pc \in { "config", "generate" } =>
              /\ ~llm_result.called
              /\ prompt = << >>
              /\ ~IsOwnMessage(msg)
              /\ ~AlreadyProcessed(msg, processed_message_ids)
              /\ is_mentioned(msg, users)))
  /\ [][(config_resp' # config_resp /\ config_resp' # NoResponse)
        => (pc \in { "startup_config", "config" } /\ config_resp = NoResponse)]_vars

\* C14 witness: the second pipeline run of a cycle has made its config sync,
\* which found the agent's entry, and has not yet built the context.
ConfigSyncTimingWitness ==
  /\ pc = "generate"
  /\ idx = 2
  /\ config_resp.status = 200
  /\ agent_config = CfgPlain
  /\ new_messages[1].id \in processed_message_ids
  /\ prompt = << >>

\* The response lists this agent's entry with provider "parallax" and a
\* non-empty runtime endpoint.
Repoints(resp) ==
  LET agent == FindAgent(resp.agents)
      model == Get(agent, "model", [x |-> 0])
      runtime == Get(agent, "runtime", [x |-> 0])
  IN /\ ~resp.raised
     /\ resp.status = 200
     /\ agent # None
     /\ model # None
     /\ Get(model, "provider", "") = "parallax"
     /\ runtime # None
     /\ Truthy(Get(runtime, "endpoint", << >>))

\* C15: a step changes the endpoint or the credential of the LLM Client only
\* when it is a config sync whose response lists the agent's entry with
\* provider "parallax" and a non-empty runtime endpoint, and then the endpoint
\* becomes that runtime endpoint and the credential its alias or the default
\* one; after every other step, whatever response
\* a sync received, both are what they were, also when they were repointed
\* earlier.
ClientReconfiguration ==
  [][IF Repoints(config_resp')
     THEN LET runtime == FindAgent(config_resp'.agents).runtime
          IN /\ llm_client'.base_url = runtime.endpoint
             /\ llm_client'.api_key \in { Get(runtime, "apiKeyAlias", << >>),
                                         DEFAULT_API_KEY }
     ELSE llm_client' = llm_client]_vars

\* C15 witness: the client was repointed by an earlier sync, and the sync just
\* made found the entry edited to another provider, with a runtime endpoint
\* still present: the client still targets the earlier endpoint.
ClientReconfigurationWitness ==
  /\ llm_client = [base_url |-> EndpointA, api_key |-> KeyAlias]
  /\ ~config_resp.raised
  /\ config_resp.status = 200
  /\ agent_config = FindAgent(config_resp.agents)
  /\ Get(agent_config, "model", None) = [provider |-> "openai", name |-> "m1"]
  /\ Get(agent_config, "runtime", None) = [endpoint |-> EndpointB]

FatalLoginFailure ==
  /\ (pc = "exit" => ~Truthy(jwt_token))
  /\ (~Truthy(jwt_token) =>
        /\ pc \in { "login", "exit" }
        /\ hb_pc = "off"
        /\ hb_last = "none"
        /\ config_resp = NoResponse
        /\ agent_config = None
        /\ messages = << >>
        /\ users = << >>
        /\ log = "none"
        /\ processed_message_ids = {}
        /\ \A m \in MessageIds : sent[m] = << >>)

\* C17 witness: login has failed and the process has ended.
FatalLoginFailureWitness ==
  /\ pc = "exit"
  /\ jwt_token = << >>
  /\ hb_pc = "off"

\* C18: a fetch that fails (raised failure, 401 or another status than 200,
\* whatever its body) gives an empty message list and an empty user list, no
\* candidate, and goes straight to the sleep with the watermark, the processed
\* set and the publishes unchanged; the sleep that follows leads to the next
\* fetch, again without changing them.
FetchFailureTransient ==
  /\ [][(pc = "fetch" /\ log' = "fetch_failed")
        => /\ messages' = << >>
           /\ users' = << >>
           /\ new_messages' = << >>
           /\ pc' = "sleep"
           /\ UNCHANGED << last_seen_timestamp, processed_message_ids, sent,
                           agent_config >>]_vars
  /\ [][(pc = "sleep" /\ log = "fetch_failed")
        => /\ pc' = "fetch"
           /\ UNCHANGED << last_seen_timestamp, processed_message_ids, sent >>]_vars

\* C18 witness: a fetch has failed in a cycle that follows one in which a
\* mention was answered and the watermark advanced.
FetchFailureTransientWitness ==
  /\ pc = "sleep"
  /\ log = "fetch_failed"
  /\ messages = << >>
  /\ processed_message_ids = { "a" }
  /\ last_seen_timestamp = 300

\* ------------------------------------------------------------------------
\* Cadence
\* ------------------------------------------------------------------------

\* C19 as stated: once both threads have slept, the sleep between two
\* heartbeats was shorter than the sleep between two poll cycles.
HeartbeatShorterThanPoll ==
  (hb_slept > 0 /\ poll_slept > 0) => hb_slept < poll_slept

\* C19, amended: every finished sleep of the heartbeat thread lasted
\* HEARTBEAT_INTERVAL seconds, every finished sleep of the poller
\* POLL_INTERVAL seconds, and the sleep between two heartbeats is longer than
\* the sleep between two poll cycles.
HeartbeatLongerThanPoll ==
  /\ (hb_slept > 0 => hb_slept = HEARTBEAT_INTERVAL)
  /\ (poll_slept > 0 => poll_slept = POLL_INTERVAL)
  /\ ((hb_slept > 0 /\ poll_slept > 0) => hb_slept > poll_slept)

\* C19 witness: the heartbeat thread has finished a sleep and is sleeping
\* again, and the poller has finished sleeps meanwhile.
HeartbeatLongerThanPollWitness ==
  /\ hb_slept > 0
  /\ poll_slept > 0
  /\ hb_pc = "sleep"
  /\ now > hb_sleep_start
  /\ pc = "fetch"

\* ------------------------------------------------------------------------
\* Context
\* ------------------------------------------------------------------------

\* min(n, 10)
WindowSize(n) == IF n < ContextWindow THEN n ELSE ContextWindow

\* C20: once generate_reply has called the LLM Client for a fetched list of n
\* messages, the turn list it gave is the system turn followed by exactly
\* min(n, 10) turns, and the j-th of them is the turn made of the j-th of the
\* last min(n, 10) messages of the list.
ContextWindowBound ==
  pc = "publish" =>
    LET n == Len(messages)
        k == WindowSize(n)
    IN /\ Len(prompt) = k + 1
       /\ prompt[1].role = "system"
       /\ \A j \in 1 .. k :
            /\ prompt[j + 1] = Turn(messages[n - k + j], users, msg)
            /\ prompt[j + 1].role =
                 IF IsOwnMessage(messages[n - k + j]) THEN "assistant" ELSE "user"

\* C20 witness: of a list of eleven messages the first, sent by the agent,
\* was left out, and the first turn after the system turn is the one of the
\* second message, sent by another user.
ContextWindowBoundWitness ==
  /\ pc = "publish"
  /\ Len(messages) = ContextWindow + 1
  /\ messages[1] = MsgC
  /\ messages[2] = MsgA
  /\ Len(prompt) = ContextWindow + 1
  /\ prompt[2].role = "user"

\* ------------------------------------------------------------------------
\* Turns
\* ------------------------------------------------------------------------

\* The turn carries the annotation of the trigger.
Annotated(turn) == Contains(turn.content, << ">" >> \o AskingYou \o << ":" >>)

\* The message the j-th turn after the system turn was built from.
TurnSource(j) == messages[Len(messages) - (Len(prompt) - 1) + j]

OccursAt(text, pat, k) ==
  /\ k + Len(pat) - 1 <= Len(text)
  /\ \A d \in 1 .. Len(pat) : text[k + d - 1] = pat[d]

\* (a) the structured mention list of m holds the agent's user id.
MentionedStructurally(m) ==
  "mentions" \in DOMAIN m /\ \E k \in 1 .. Len(m.mentions) : m.mentions[k] = AGENT_USER_ID

\* (b) an entry of the user list with the agent's user id has a non-empty
\* name N, and "@" followed by N occurs in the content of m.
MentionedByName(m, us) ==
  \E i \in 1 .. Len(us) :
    /\ "id" \in DOMAIN us[i] /\ us[i].id = AGENT_USER_ID
    /\ "name" \in DOMAIN us[i] /\ us[i].name # << >>
    /\ \E k \in 1 .. Len(m.content) :
         OccursAt(m.content, << "@" >> \o us[i].name, k)

\* C22: process_message goes on with a message of another user (the mention
\* check returned true) exactly when (a) or (b) holds, and skips it
\* otherwise; "@Bob hey @Bot can you help" with no structured mention and an
\* agent named "Bot" is a mention, "hello everyone" is none.
MentionDetection ==
  /\ pc = "config" =>
       MentionedStructurally(msg) \/ MentionedByName(msg, users)
  /\ pc = "dispatch" /\ idx = 2 =>
       ~(MentionedStructurally(new_messages[1]) \/ MentionedByName(new_messages[1], users))
  /\ idx = 1 /\ ~MentionedStructurally(msg) /\ users = UsersWithAgent
       /\ msg.content = TextHello => pc # "config"
  /\ idx = 2 => new_messages[1].content # TextAtBotHelp \/ users # UsersWithAgent

\* C22 witness: the message "@Bob hey @Bot can you help", whose structured
\* mention list is empty, passed the mention check by the agent's name.
MentionDetectionWitness ==
  /\ pc = "config"
  /\ msg.content = TextAtBotHelp
  /\ "mentions" \in DOMAIN msg /\ msg.mentions = << >>
  /\ users = UsersWithAgent

\* ------------------------------------------------------------------------
\* Sanitizer
\* ------------------------------------------------------------------------

\* Least element of a non-empty set of numbers.
Least(S) == CHOOSE i \in S : \A j \in S : i <= j

\* The positions at which pat occurs in text.
Occurrences(text, pat) == { k \in 1 .. Len(text) : OccursAt(text, pat, k) }

\* The content between the first final-channel marker of raw and the next
\* end marker, or the end of raw when no end marker follows.
FinalSegment(raw) ==
  LET start == Least(Occurrences(raw, TagChannelFinalMessage))
                 + Len(TagChannelFinalMessage)
      ends == { e \in Occurrences(raw, TagEnd) : e >= start }
  IN IF ends = {} THEN SubSeq(raw, start, Len(raw))
     ELSE SubSeq(raw, start, Least(ends) - 1)

\* Steps 2 to 5 of the sanitizer.
AfterExtraction(text) == Strip(CollapseNewlines(StripFraming(StripThink(text))))

\* "Hello"
TextHello5 == << "H", "e", "l", "l", "o" >>

\* C23: the reply made of a raw completion that holds a final-channel marker
\* is what steps 2 to 5 of the sanitizer make of the content between the first
\* such marker and the next end marker (or the end of the text): nothing
\* before the marker and nothing from the end marker on is in it; the
\* two-channel example gives exactly "Hello".
FinalChannelExtraction ==
  pc = "publish" =>
    LET raw == llm_result.text
    IN /\ Occurrences(raw, TagChannelFinalMessage) # {} =>
            reply = AfterExtraction(FinalSegment(raw))
       /\ raw = ExampleChannels => reply = TextHello5

\* C23 witness: the two-channel example was sanitized to "Hello" and handed
\* to send_message.
FinalChannelExtractionWitness ==
  /\ pc = "mark"
  /\ llm_result.text = ExampleChannels
  /\ reply = TextHello5
  /\ sent["a"][1].content = TextHello5

\* A framing token <|...|> lies in text: "<|", at least one character and no
\* ">" in between, "|>".
HasFramingToken(text) ==
  \E i, j \in 1 .. Len(text) :
    /\ j >= i + 4
    /\ text[i] = "<" /\ text[i + 1] = "|"
    /\ text[j - 1] = "|" /\ text[j] = ">"
    /\ \A k \in i + 2 .. j - 2 : text[k] # ">"

\* A complete <think>...</think> block lies in text.
HasThinkBlock(text) ==
  \E i \in Occurrences(text, TagThinkOpen), j \in Occurrences(text, TagThinkClose) :
    j >= i + Len(TagThinkOpen)

\* "Answer"
TextAnswer == << "A", "n", "s", "w", "e", "r" >>

\* C24: the reply made of any raw completion holds no framing token <|...|>,
\* no complete <think>...</think> block and no run of three or more newlines,
\* and neither starts nor ends with whitespace; "<think>reasoning</think>Answer"
\* gives exactly "Answer".
SanitizedTextClean ==
  pc = "publish" =>
    /\ ~HasFramingToken(reply)
    /\ ~HasThinkBlock(reply)
    /\ Occurrences(reply, << "\n", "\n", "\n" >>) = {}
    /\ Len(reply) > 0 =>
         reply[1] \notin Whitespace /\ reply[Len(reply)] \notin Whitespace
    /\ llm_result.text = ExampleThink => reply = TextAnswer

\* text ends with suffix.
EndsWith(text, suffix) ==
  /\ Len(text) >= Len(suffix)
  /\ SubSeq(text, Len(text) - Len(suffix) + 1, Len(text)) = suffix

\* The turn is made of the message content body: it is body for a turn of
\* the agent and ends with ": " and body for any other turn.
TurnBody(turn, body) ==
  IF turn.role = "assistant" THEN turn.content = body
  ELSE EndsWith(turn.content, << ">", ":", " " >> \o body)
       \/ EndsWith(turn.content, << "]", ":", " " >> \o body)

\* text without the @ tokens it starts with, each with the whitespace after it.
RECURSIVE WithoutLeadingMentions(_)
WithoutLeadingMentions(text) ==
  IF Len(text) >= 2 /\ text[1] = "@" /\ text[2] \in TagChars
  THEN LET rest == { k \in 2 .. Len(text) + 1 :
                       /\ \A l \in 2 .. k - 1 : text[l] \in TagChars \cup Whitespace
                       /\ \A l \in 2 .. k - 2 :
                            text[l] \in Whitespace => text[l + 1] \in Whitespace
                       /\ k <= Len(text) => text[k] \notin Whitespace
                       /\ (k <= Len(text) /\ text[k] \in TagChars)
                            => text[k - 1] \in Whitespace }
       IN WithoutLeadingMentions(SubSeq(text, Least(rest), Len(text)))
  ELSE text

\* C25 as stated: the turn of a message is made of its content without the
\* @ tokens it starts with, trimmed; an @ token after the first other word
\* is kept.  (The contents here hold no framing, so the sanitizer leaves
\* them as they are.)
LeadingMentionsOnly ==
  pc = "publish" =>
    \A j \in 1 .. Len(prompt) - 1 :
      TurnBody(prompt[j + 1], Strip(WithoutLeadingMentions(TurnSource(j).content)))

\* What re.sub(r"@[\w\-\.]+\s*", "", content).strip() gives for the contents
\* of the conversation (computed with Python's re).
WithoutMentions(content) ==
  CASE content = TextHi -> TextHi
    [] content = TextAtBot -> << "h", "e", "y" >>
    [] content = TextHeyBotNow -> << "h", "e", "y", " ", "n", "o", "w" >>
    [] content = TextAddress -> << "a", "x", " ", "@", " ", "@", "e" >>

\* C25 amended: the turn of a message is made of its content without any
\* @ token ("@" and the word characters, hyphens and dots after it),
\* wherever the token stands, each removed with the whitespace after it,
\* then trimmed: "@Bob hey @Bot" gives "hey", "hey @Bot now" gives "hey now".
AllMentionsRemoved ==
  pc = "publish" =>
    \A j \in 1 .. Len(prompt) - 1 :
      TurnBody(prompt[j + 1], WithoutMentions(TurnSource(j).content))

\* C25 witness: the turns of "@Bob hey @Bot", sent by the agent, and of
\* "hey @Bot now", sent by another user, are "hey" and "<Name: Ann>: hey now".
AllMentionsRemovedWitness ==
  /\ pc = "publish"
  /\ users = UsersWithAgent
  /\ messages = << MsgC, MsgF, MsgA >>
  /\ msg = MsgA
  /\ prompt[2] = [role |-> "assistant", content |-> << "h", "e", "y" >>]
  /\ prompt[3].content =
       NameTag(NameAnn) \o << ":", " ", "h", "e", "y", " ", "n", "o", "w" >>

\* text starts with prefix.
StartsWith(text, prefix) ==
  Len(text) >= Len(prefix) /\ SubSeq(text, 1, Len(prefix)) = prefix

\* The display name of a sender: "User" for a sender no entry of the user
\* list has, else the name of the last entry that has it ("User" when that
\* entry has no name).
DisplayName(us, sender) ==
  IF \A i \in 1 .. Len(us) : us[i].id # sender THEN TextUser
  ELSE LET last == CHOOSE i \in 1 .. Len(us) :
                     /\ us[i].id = sender
                     /\ \A k \in i + 1 .. Len(us) : us[k].id # sender
       IN IF "name" \in DOMAIN us[last] THEN us[last].name ELSE TextUser

\* C26: a turn built from a message of the agent has the role assistant and
\* is the cleaned content alone, without a name; a turn built from a message
\* of anyone else has the role user and starts with "<Name: D>", D the
\* sender's display name of the user list, "User" for a sender it does not
\* list, and ends with the cleaned content.
RoleTagging ==
  pc = "publish" =>
    \A j \in 1 .. Len(prompt) - 1 :
      LET src == TurnSource(j)
          turn == prompt[j + 1]
      IN IF src.senderId = AGENT_USER_ID
         THEN /\ turn.role = "assistant"
              /\ turn.content = WithoutMentions(src.content)
         ELSE /\ turn.role = "user"
              /\ StartsWith(turn.content,
                            NameTag(DisplayName(users, src.senderId))
                              \o (IF src.id = msg.id THEN AskingYou ELSE << >>)
                              \o << ":", " " >>)
              /\ TurnBody(turn, WithoutMentions(src.content))

\* C26 witness: three turns after the system turn, of a user the list does
\* not have ("<Name: User>: hi"), of the agent ("hey") and of the user Ann,
\* who is listed twice.
RoleTaggingWitness ==
  /\ pc = "publish"
  /\ users = UsersTwice
  /\ messages = << MsgD, MsgC, MsgB >>
  /\ msg = MsgA
  /\ prompt[2] = [role |-> "user",
                  content |-> NameTag(TextUser) \o << ":", " " >> \o TextHi]
  /\ prompt[3] = [role |-> "assistant", content |-> << "h", "e", "y" >>]
  /\ prompt[4] = [role |-> "user",
                  content |-> NameTag(NameAnn) \o << ":", " ", "h", "e", "y" >>]

\* ------------------------------------------------------------------------
\* The published reply
\* ------------------------------------------------------------------------

\* C27: the reply handed to send_message is never the empty text, whatever
\* the LLM Client did: neither the reply process_message is about to publish
\* nor the content of any publish attempt made.
ReplyNeverEmpty ==
  /\ pc = "publish" => reply # << >>
  /\ \A id \in MessageIds :
       \A k \in 1 .. Len(sent[id]) : sent[id][k].content # << >>

\* ------------------------------------------------------------------------
\* Aborted cycles
\* ------------------------------------------------------------------------

\* The step in which a failure raised while dispatching reaches the except
\* clause of run.
AbortsCycle == log # "loop_exception" /\ log' = "loop_exception"

\* C28: a failure raised while a candidate is dispatched ends the cycle on
\* the spot, with the watermark, the processed set and the publish attempts
\* as they were; the watermark moves only in the step that ends a complete
\* for loop.  In the aborted cycle the failing message is not in the
\* processed set, and what the same fetched list would give as candidates now
\* holds the failing message and every candidate after it, and of the
\* candidates before it exactly those not replied to.
AbortedCycleRetried ==
  /\ [][AbortsCycle =>
          /\ pc \in DispatchPcs
          /\ pc' = "sleep"
          /\ UNCHANGED << last_seen_timestamp, processed_message_ids, sent,
                          new_messages, idx >>]_vars
  /\ [][last_seen_timestamp' # last_seen_timestamp =>
          /\ pc = "dispatch" /\ idx > Len(new_messages)
          /\ log' # "loop_exception"]_vars
  /\ [](log = "loop_exception" =>
          LET again == NewMessages(messages, last_seen_timestamp,
                                   processed_message_ids)
          IN /\ pc = "sleep"
             /\ idx <= Len(new_messages)
             /\ msg.id \notin processed_message_ids
             /\ InList(msg, again)
             /\ \A i \in 1 .. Len(new_messages) :
                  IF new_messages[i].id \in processed_message_ids
                  THEN /\ ~InList(new_messages[i], again)
                       /\ Len(sent[new_messages[i].id]) > 0
                       /\ \E k \in 1 .. idx - 1 :
                            new_messages[k].id = new_messages[i].id
                  ELSE InList(new_messages[i], again))

\* C28 witness: the cycle was aborted at its first candidate; the second, a
\* mention, was not dispatched, is not processed and the watermark is below it.
AbortedCycleRetriedWitness ==
  /\ pc = "sleep"
  /\ log = "loop_exception"
  /\ idx = 1
  /\ Len(new_messages) = 2
  /\ new_messages[2] = MsgA
  /\ sent["a"] = << >>
  /\ "a" \notin processed_message_ids
  /\ last_seen_timestamp < Timestamp(MsgA)

\* ------------------------------------------------------------------------
\* The processed set
\* ------------------------------------------------------------------------

\* A publish attempt has been made for the message with this id.
Attempted(id) == Len(sent[id]) > 0

\* C29: the processed set only grows; an id is in it only if a publish
\* attempt has been made for it, and every id with a publish attempt is in
\* it, the one process_message has just published and is about to add
\* excepted; an id is added only for the message being dispatched, which is
\* newer than the watermark, not sent by the agent and a mention, and right
\* after its publish attempt; the ids of the agent's own message and of the
\* messages that are no mention are never in it.
ProcessedIsPublished ==
  /\ [][processed_message_ids \subseteq processed_message_ids']_vars
  /\ [](\A id \in MessageIds :
          /\ id \in processed_message_ids => Attempted(id)
          /\ Attempted(id) =>
               id \in processed_message_ids \/ (pc = "mark" /\ msg.id = id))
  /\ [](processed_message_ids \subseteq MessageIds \ { MsgC.id, MsgD.id, MsgE.id })
  /\ [][\A id \in processed_message_ids' \ processed_message_ids :
          /\ pc = "mark" /\ msg.id = id
          /\ Attempted(id)
          /\ Timestamp(msg) > last_seen_timestamp
          /\ ~IsOwnMessage(msg)
          /\ MentionedStructurally(msg) \/ MentionedByName(msg, users)]_vars

\* C29 witness: the cycle fetched the agent's own message and a mention; the
\* publish attempt for the mention failed, and the mention's id is the only
\* one in the processed set.
ProcessedIsPublishedWitness ==
  /\ pc = "sleep"
  /\ messages = << MsgC, MsgA >>
  /\ processed_message_ids = { "a" }
  /\ Len(sent["a"]) = 1
  /\ ~sent["a"][1].ok
  /\ ~Attempted("c")

\* ------------------------------------------------------------------------
\* Failed config syncs
\* ------------------------------------------------------------------------

\* The sync that received resp failed: the request raised, the status was
\* not 200, the registry did not list this agent, or a failure was raised
\* while the entry was read.
SyncFailed(resp) ==
  \/ resp.raised
  \/ resp.status # 200
  \/ FindAgent(resp.agents) = None
  \/ FetchAgentConfigRaises(resp)

\* C30: a failed config sync leaves the cached config exactly as it was, and
\* the pipeline goes on to generate_reply; after a failed sync generate_reply
\* builds the system turn from the cached config (the default when there is
\* none) and the publish attempt follows, unless build_context raised.
FailedSyncHarmless ==
  /\ [][(pc \in { "startup_config", "config" }) /\ SyncFailed(config_resp') =>
          /\ agent_config' = agent_config
          /\ pc' = (IF pc = "config" THEN "generate" ELSE "run_start")]_vars
  /\ [][( /\ pc = "generate"
          /\ SyncFailed(config_resp)
          /\ ~BuildContextRaises(users) ) =>
          /\ pc' = "publish"
          /\ prompt'[1] = SystemTurn(agent_config)
          /\ agent_config' = agent_config]_vars

\* ------------------------------------------------------------------------
\* The trigger and the window
\* ------------------------------------------------------------------------

\* The trigger is one of the last ten messages of the fetched list.
TriggerInWindow ==
  \E i \in 1 .. Len(messages) :
    /\ i > Len(messages) - ContextWindow
    /\ messages[i].id = msg.id

\* The positions of the pipeline at which the context of the trigger stands.
ContextBuilt == pc \in { "publish", "mark" }

\* C31: the turns of a reply are those of the last ten messages of the list
\* the cycle fetched, one each, in order; when the trigger is not one of
\* these ten, no turn is made of the trigger and none carries "[asking you]",
\* and the reply is generated all the same and published once with the
\* trigger's id as replyToId.
TriggerOutsideWindow ==
  /\ [](ContextBuilt =>
          /\ Len(prompt) - 1 = WindowSize(Len(messages))
          /\ \A j \in 1 .. Len(prompt) - 1 :
               /\ prompt[j + 1].role =
                    IF TurnSource(j).senderId = AGENT_USER_ID
                    THEN "assistant" ELSE "user"
               /\ TurnBody(prompt[j + 1], WithoutMentions(TurnSource(j).content))
          /\ ~TriggerInWindow =>
               \A j \in 1 .. Len(prompt) - 1 :
                 /\ ~Annotated(prompt[j + 1])
                 /\ ~TurnBody(prompt[j + 1], WithoutMentions(msg.content)))
  /\ [][messages' = messages /\ new_messages' = new_messages]_vars
  /\ [][pc = "generate" => pc' = "publish" /\ reply' = generate_reply(llm_result')]_vars
  /\ [][pc = "publish" =>
          /\ pc' = "mark"
          /\ Len(sent'[msg.id]) = 1
          /\ sent'[msg.id][1].content = reply
          /\ \A id \in MessageIds \ { msg.id } : sent'[id] = << >>]_vars

\* C31 witness: the trigger is the first of eleven messages, ten of them sent
\* by another user; the ten turns are theirs, none carries the annotation, and
\* the reply was published for the trigger.
TriggerOutsideWindowWitness ==
  /\ pc = "mark"
  /\ Len(messages) = ContextWindow + 1
  /\ messages[1] = MsgB
  /\ msg = MsgB
  /\ messages[2].senderId = "u2"
  /\ ~TriggerInWindow
  /\ Len(prompt) = ContextWindow + 1
  /\ \A j \in 1 .. ContextWindow : ~Annotated(prompt[j + 1])
  /\ Len(sent["b"]) = 1

====
